---- MODULE Spec2Model ----
(***************************************************************************)
(* A model of the transmission-packet decoder and evaluator of             *)
(* day_16/main.py.  The bit stream is fixed when it is constructed; the    *)
(* recursive-descent decoder (from_bits, Literal.from_bits,                *)
(* Operator.from_bits) runs as a state machine over an explicit call       *)
(* stack, one action per block of statements; version_sum and calculate    *)
(* are recursive operators applied to the decoded tree.                    *)
(* A second specification, SpecQueue, models the MinPriorityQueue of       *)
(* day_15/main.py: one action per method call, the heap operations as      *)
(* operators over the list _queue and the dict _pos.  The two programs     *)
(* share nothing: each specification holds the other's variables still.    *)
(* Further specifications model lowest_risk of day_15 (SpecRisk),          *)
(* check_line of day_10 (SpecLine), Board of day_4 (SpecBoard) and         *)
(* State.step of day_11 (SpecStep), each on its own variables.             *)
(***************************************************************************)
EXTENDS Integers, Sequences, FiniteSets, TLC

VARIABLES
    bits,       \* the ConstBitStream's data: a sequence of 0/1, never written
    bitpos,     \* bits.bitpos, the read cursor
    entry,      \* the function called on the stream
    pc,         \* "call" | "running" | "done" | "error" ("off" in SpecQueue)
    stack,      \* the call stack of Literal.from_bits / Operator.from_bits frames
    packets,    \* what the entry call returned (NoPacket before, and on error)
    error,      \* the exception that escaped the entry call ("" if none)
    returned,   \* history: one record per from_bits call of a variant that returned
    vsum,       \* outcome of version_sum(packets)
    calc,       \* outcome of calculate(packets)
    queue,      \* MinPriorityQueue._queue: the list of entries [priority, item]
    pos,        \* MinPriorityQueue._pos: item -> index into _queue, from 0
    last,       \* the most recent method call and what it returned or raised
    grid,       \* lowest_risk's grid: a Grid of rows of risks, tiled n times
    end,        \* lowest_risk's end position
    rpc,        \* lowest_risk: "call" | "loop" | "done" | "error" ("off" elsewhere)
    visited,    \* lowest_risk's set of visited positions
    trace,      \* history: the pq.pop() and pq.change() calls lowest_risk made
    result,     \* what lowest_risk returned, or the exception it raised
    line,       \* check_line's argument: a sequence of characters
    read,       \* check_line: how many characters the for loop has taken
    closers,    \* check_line's local `stack`: the closers owed, innermost last
    outcome,    \* how check_line ended: returned, or the exception raised
    marked,     \* Board._marked: the bit-board, bit 5*row + col for a cell
    won,        \* what win() returned ("True", "False"), "unasked" before the call
    cells,      \* history: the cells <<row, col>> that mark was called with
    xmax,       \* State.xmax
    ymax,       \* State.ymax
    energy_positions,   \* State.energy_positions: energy level -> set of positions
    positions_energy,   \* State.positions_energy: position -> energy level
    flashed,    \* step's local set of the positions that flashed
    spc,        \* State.step: "call" | "flashing" | "returned" | "raised"
    stepped,    \* what step returned, or the exception it raised
    requeued    \* history: step took its `flash in flashed` branch

vars == <<bits, bitpos, entry, pc, stack, packets, error, returned, vsum, calc,
          queue, pos, last, grid, end, rpc, visited, trace, result,
          line, read, closers, outcome, marked, won, cells,
          xmax, ymax, energy_positions, positions_energy, flashed, spc, stepped,
          requeued>>

decoderVars == <<bits, bitpos, entry, pc, stack, packets, error, returned, vsum, calc>>

queueVars == <<queue, pos, last>>

riskVars == <<grid, end, rpc, visited, trace, result>>

\* What each program leaves alone: the variables of the other programs.
lineVars == <<line, read, closers, outcome>>

boardVars == <<marked, won, cells>>

stateVars == <<xmax, ymax, energy_positions, positions_energy, flashed, spc,
               stepped, requeued>>

besidesDecoder == <<queueVars, riskVars, lineVars, boardVars, stateVars>>

besidesQueue == <<decoderVars, riskVars, lineVars, boardVars, stateVars>>

besidesRisk == <<decoderVars, last, lineVars, boardVars, stateVars>>

besidesLine == <<decoderVars, queueVars, riskVars, boardVars, stateVars>>

besidesBoard == <<decoderVars, queueVars, riskVars, lineVars, stateVars>>

besidesState == <<decoderVars, queueVars, riskVars, lineVars, boardVars>>

----------------------------------------------------------------------------
(* Bit-level helpers: unsigned integers are stored most significant bit    *)
(* first.                                                                  *)

BitsToNat(s) ==
    LET value[i \in 0..Len(s)] == IF i = 0 THEN 0 ELSE 2 * value[i - 1] + s[i]
    IN  value[Len(s)]

RECURSIVE NatToBits(_, _)
NatToBits(n, w) ==
    IF w = 0 THEN <<>>
    ELSE Append(NatToBits(n \div 2, w - 1), n % 2)

RECURSIVE Flatten(_)
Flatten(ss) ==
    IF ss = <<>> THEN <<>> ELSE Head(ss) \o Flatten(Tail(ss))

\* ConstBitStream(hex=h): every hex digit expands to four bits.
HexToBits(h) == Flatten([i \in 1..Len(h) |-> NatToBits(h[i], 4)])

\* A read of n bits at position p succeeds iff the stream holds them.
CanRead(p, n) == p + n <= Len(bits)

\* bits.read("uint:n") at position p (the caller advances the cursor).
ReadUint(p, n) == BitsToNat(SubSeq(bits, p + 1, p + n))

\* bits.read("bool") at position p.
ReadBool(p) == bits[p + 1] = 1

\* bits.peeklist(["uint:3", "uint:3"]) at position p: the cursor stays.
PeekList(p) == <<ReadUint(p, 3), ReadUint(p + 3, 3)>>

\* A variant of AfterPeek: the peek moves the cursor as a read does.
AfterPeekAdvanced(p) == p + 6

\* The cursor after bits.peeklist([...]) at position p.
AfterPeek(p) == p

\* A variant of Advance: a read leaves the cursor where it was.
AdvanceStuck(p, n) == p

\* The cursor after a read of n bits at position p.
Advance(p, n) == p + n

----------------------------------------------------------------------------
(* Packets.                                                                *)

LiteralTypeId == 4

NoPacket == [kind |-> "None"]

Literal(version, value) ==
    [kind |-> "Literal", version |-> version, type_id |-> LiteralTypeId,
     value |-> value]

\* A variant of Operator: version and type_id change places.
OperatorSwapped(version, type_id, sub_packets) ==
    [kind |-> "Operator", version |-> type_id, type_id |-> version,
     sub_packets |-> sub_packets]

Operator(version, type_id, sub_packets) ==
    [kind |-> "Operator", version |-> version, type_id |-> type_id,
     sub_packets |-> sub_packets]

\* A variant of ShiftIn: the value is not shifted before the nibble is added.
ShiftInNoShift(value, nibble) == value + nibble

\* A variant of ShiftIn: the value is shifted by two bits.
ShiftInByTwo(value, nibble) == (value * 4) + nibble

\* value = (value << 4) + <the four bits read>
ShiftIn(value, nibble) == (value * 16) + nibble

\* float("inf") and a finite number, and the comparison a < b between them.
Inf == <<>>
Fin(n) == <<n>>
Less(a, b) == IF b = Inf THEN TRUE ELSE a < b[1]

----------------------------------------------------------------------------
(* Stack frames.                                                           *)

LiteralFrame(p) ==
    [fn |-> "Literal", at |-> "header", begin |-> p,
     version |-> 0, type_id |-> 0, value |-> 0, more_groups |-> TRUE,
     length_type_id |-> 0, declared |-> 0,
     n_subpackets |-> Inf, subpacket_bits |-> Inf,
     n_parsed |-> 0, start |-> 0, subpackets |-> <<>>, spans |-> <<>>]

OperatorFrame(p) ==
    [fn |-> "Operator", at |-> "header", begin |-> p,
     version |-> 0, type_id |-> 0, value |-> 0, more_groups |-> TRUE,
     length_type_id |-> 0, declared |-> 0,
     n_subpackets |-> Inf, subpacket_bits |-> Inf,
     n_parsed |-> 0, start |-> 0, subpackets |-> <<>>, spans |-> <<>>]

Top == stack[Len(stack)]

Push(f) == Append(stack, f)

SetTop(f) == [stack EXCEPT ![Len(stack)] = f]

\* A variant of Raise: the stream is rewound when an exception leaves.
RaiseRewound(e, p) ==
    /\ pc' = "error"
    /\ error' = e
    /\ bitpos' = 0
    /\ stack' = <<>>
    /\ UNCHANGED <<bits, entry, packets, returned, vsum, calc>>

\* An exception unwinds every frame and escapes the entry call.
Raise(e, p) ==
    /\ pc' = "error"
    /\ error' = e
    /\ bitpos' = p
    /\ stack' = <<>>
    /\ UNCHANGED <<bits, entry, packets, returned, vsum, calc>>

\* A variant of AppendSubpacket: the packet is put in front of the list.
AppendSubpacketInFront(f, packet, span) ==
    [f EXCEPT !.subpackets = <<packet>> \o @,
              !.spans = <<span>> \o @,
              !.n_parsed = @ + 1,
              !.at = "loop"]

\* subpackets.append(<the packet the call returned>); n_parsed += 1, in the
\* calling frame f; span is where the packet lay in the stream.
AppendSubpacket(f, packet, span) ==
    [f EXCEPT !.subpackets = Append(@, packet),
              !.spans = Append(@, span),
              !.n_parsed = @ + 1,
              !.at = "loop"]

\* `return packet` of the top frame: into the calling frame's loop, or out of
\* the entry call.
Return(packet, ev) ==
    /\ returned' = Append(returned, ev)
    /\ IF Len(stack) = 1
       THEN /\ stack' = <<>>
            /\ packets' = packet
            /\ pc' = "done"
       ELSE /\ stack' = [SubSeq(stack, 1, Len(stack) - 1)
                           EXCEPT ![Len(stack) - 1] =
                             AppendSubpacket(@, packet, <<Top.begin, bitpos>>)]
            /\ UNCHANGED <<packets, pc>>
    /\ UNCHANGED <<bits, bitpos, entry, error, vsum, calc>>

----------------------------------------------------------------------------
(* The decoder.                                                            *)

\* The record kept of a call that returned.
Event(f, packet) ==
    [fn |-> f.fn, begin |-> f.begin, end |-> bitpos, packet |-> packet,
     length_type_id |-> f.length_type_id, declared |-> f.declared,
     start |-> f.start, spans |-> f.spans]

\* A variant of Variant: the literal's parser is chosen for type_id 5.
VariantForFive(type_id, p) ==
    IF type_id = 5 THEN LiteralFrame(p) ELSE OperatorFrame(p)

\* The variant parser chosen from a peeked type_id.
Variant(type_id, p) ==
    IF type_id = 4 THEN LiteralFrame(p) ELSE OperatorFrame(p)

\* The entry call: from_bits peeks the header and calls the variant's parser;
\* Literal.from_bits and Operator.from_bits may also be called directly.
Call ==
    /\ pc = "call"
    /\ IF entry = "from_bits"
       THEN IF ~CanRead(bitpos, 6)
            THEN Raise("ReadError", bitpos)
            ELSE /\ stack' = Push(Variant(PeekList(bitpos)[2], bitpos))
                 /\ bitpos' = AfterPeek(bitpos)
                 /\ pc' = "running"
                 /\ UNCHANGED <<bits, entry, packets, error, returned, vsum, calc>>
       ELSE /\ stack' = Push(IF entry = "Literal.from_bits"
                             THEN LiteralFrame(bitpos)
                             ELSE OperatorFrame(bitpos))
            /\ pc' = "running"
            /\ UNCHANGED <<bits, bitpos, entry, packets, error, returned,
                           vsum, calc>>

\* Literal.from_bits: version, type_id and the check of type_id.
LiteralHeader ==
    /\ pc = "running"
    /\ Top.fn = "Literal"
    /\ Top.at = "header"
    /\ IF ~CanRead(bitpos, 3) THEN Raise("ReadError", bitpos)
       ELSE IF ~CanRead(bitpos + 3, 3) THEN Raise("ReadError", bitpos + 3)
       ELSE IF ReadUint(bitpos + 3, 3) # LiteralTypeId
            THEN Raise("ValueError", bitpos + 6)
       ELSE /\ stack' = SetTop([Top EXCEPT
                                  !.version = ReadUint(bitpos, 3),
                                  !.type_id = ReadUint(bitpos + 3, 3),
                                  !.value = 0,
                                  !.more_groups = TRUE,
                                  !.at = "groups"])
            /\ bitpos' = Advance(bitpos, 6)
            /\ UNCHANGED <<bits, entry, pc, packets, error, returned, vsum, calc>>

\* One iteration of `while more_groups`: a continuation bit and four value bits.
LiteralGroup ==
    /\ pc = "running"
    /\ Top.fn = "Literal"
    /\ Top.at = "groups"
    /\ Top.more_groups
    /\ IF ~CanRead(bitpos, 1) THEN Raise("ReadError", bitpos)
       ELSE IF ~CanRead(bitpos + 1, 4) THEN Raise("ReadError", bitpos + 1)
       ELSE /\ stack' = SetTop([Top EXCEPT
                                  !.more_groups = ReadBool(bitpos),
                                  !.value = ShiftIn(@, ReadUint(bitpos + 1, 4))])
            /\ bitpos' = Advance(bitpos, 5)
            /\ UNCHANGED <<bits, entry, pc, packets, error, returned, vsum, calc>>

\* The loop is over: return Literal(version, value).
LiteralReturn ==
    /\ pc = "running"
    /\ Top.fn = "Literal"
    /\ Top.at = "groups"
    /\ ~Top.more_groups
    /\ LET packet == Literal(Top.version, Top.value)
       IN  Return(packet, Event(Top, packet))

\* Operator.from_bits up to the loop: version, type_id and its check, the
\* length type bit, the 15-bit or 11-bit field, n_parsed, start, subpackets.
OperatorHeader ==
    /\ pc = "running"
    /\ Top.fn = "Operator"
    /\ Top.at = "header"
    /\ IF ~CanRead(bitpos, 3) THEN Raise("ReadError", bitpos)
       ELSE IF ~CanRead(bitpos + 3, 3) THEN Raise("ReadError", bitpos + 3)
       ELSE IF ReadUint(bitpos + 3, 3) = LiteralTypeId
            THEN Raise("ValueError", bitpos + 6)
       ELSE IF ~CanRead(bitpos + 6, 1) THEN Raise("ReadError", bitpos + 6)
       ELSE LET length_type_id == IF ReadBool(bitpos + 6) THEN 1 ELSE 0
                width == IF length_type_id = 0 THEN 15 ELSE 11
            IN  IF ~CanRead(bitpos + 7, width)
                THEN Raise("ReadError", bitpos + 7)
                ELSE LET field == ReadUint(bitpos + 7, width)
                     IN  /\ stack' = SetTop([Top EXCEPT
                               !.version = ReadUint(bitpos, 3),
                               !.type_id = ReadUint(bitpos + 3, 3),
                               !.length_type_id = length_type_id,
                               !.declared = field,
                               !.n_subpackets =
                                   IF length_type_id = 0 THEN Inf ELSE Fin(field),
                               !.subpacket_bits =
                                   IF length_type_id = 0 THEN Fin(field) ELSE Inf,
                               !.n_parsed = 0,
                               !.start = bitpos + 7 + width,
                               !.subpackets = <<>>,
                               !.at = "loop"])
                         /\ bitpos' = Advance(bitpos, 7 + width)
                         /\ UNCHANGED <<bits, entry, pc, packets, error,
                                        returned, vsum, calc>>

\* A variant of MoreSubpackets: the count is compared with <= instead of <.
MoreSubpacketsOneMore(f) ==
    /\ IF f.n_subpackets = Inf THEN TRUE ELSE f.n_parsed <= f.n_subpackets[1]
    /\ Less(bitpos - f.start, f.subpacket_bits)

\* A variant of MoreSubpackets: the loop also stops where the stream ends.
MoreSubpacketsUntilEnd(f) ==
    /\ Less(f.n_parsed, f.n_subpackets)
    /\ Less(bitpos - f.start, f.subpacket_bits)
    /\ bitpos < Len(bits)

\* A variant of MoreSubpackets: the bits consumed are compared with <=.
MoreSubpacketsInclusive(f) ==
    /\ Less(f.n_parsed, f.n_subpackets)
    /\ IF f.subpacket_bits = Inf THEN TRUE
       ELSE bitpos - f.start <= f.subpacket_bits[1]

\* The condition of Operator.from_bits' while loop.
MoreSubpackets(f) ==
    /\ Less(f.n_parsed, f.n_subpackets)
    /\ Less(bitpos - f.start, f.subpacket_bits)

\* The loop body up to the call: peek the next header and call its parser.
OperatorSubpacket ==
    /\ pc = "running"
    /\ Top.fn = "Operator"
    /\ Top.at = "loop"
    /\ MoreSubpackets(Top)
    /\ IF ~CanRead(bitpos, 6)
       THEN Raise("ReadError", bitpos)
       ELSE /\ stack' = Append(SetTop([Top EXCEPT !.at = "append"]),
                               Variant(PeekList(bitpos)[2], bitpos))
            /\ bitpos' = AfterPeek(bitpos)
            /\ UNCHANGED <<bits, entry, pc, packets, error, returned, vsum, calc>>

\* The loop is over: return Operator(version, type_id, subpackets).
OperatorReturn ==
    /\ pc = "running"
    /\ Top.fn = "Operator"
    /\ Top.at = "loop"
    /\ ~MoreSubpackets(Top)
    /\ LET packet == Operator(Top.version, Top.type_id, Top.subpackets)
       IN  Return(packet, Event(Top, packet))

----------------------------------------------------------------------------
(* The evaluator.  A fold's outcome is a value or the exception it raised.  *)

NotRun == [status |-> "none"]
Value(n) == [status |-> "ok", val |-> n]
Raised(e) == [status |-> "raise", err |-> e]

\* sum(xs): a left fold from 0.
RECURSIVE Sum(_)
Sum(xs) == IF xs = <<>> THEN 0 ELSE Sum(SubSeq(xs, 1, Len(xs) - 1)) + xs[Len(xs)]

\* reduce(operator.mul, xs, 1): a left fold from 1.
RECURSIVE Product(_)
Product(xs) ==
    IF xs = <<>> THEN 1 ELSE Product(SubSeq(xs, 1, Len(xs) - 1)) * xs[Len(xs)]

\* min(xs) and max(xs) of a non-empty list: a scan keeping the best so far.
RECURSIVE Min(_)
Min(xs) ==
    IF Len(xs) = 1 THEN xs[1]
    ELSE LET m == Min(SubSeq(xs, 1, Len(xs) - 1))
         IN  IF xs[Len(xs)] < m THEN xs[Len(xs)] ELSE m

RECURSIVE Max(_)
Max(xs) ==
    IF Len(xs) = 1 THEN xs[1]
    ELSE LET m == Max(SubSeq(xs, 1, Len(xs) - 1))
         IN  IF xs[Len(xs)] > m THEN xs[Len(xs)] ELSE m

\* int(b)
Int01(b) == IF b THEN 1 ELSE 0

\* A variant of version_sum: the sub-packets' own versions only, one level down.
version_sum_shallow(packet) ==
    IF packet.kind = "Literal"
    THEN packet.version
    ELSE packet.version
         + Sum([i \in 1..Len(packet.sub_packets) |-> packet.sub_packets[i].version])

RECURSIVE version_sum(_)
version_sum(packet) ==
    IF packet.kind = "Literal"
    THEN packet.version
    ELSE packet.version
         + Sum([i \in 1..Len(packet.sub_packets) |->
                   version_sum(packet.sub_packets[i])])

\* A variant of Apply: the comparisons of type_id 5 and 6 change places.
ApplySwapped(type_id, sps) ==
    CASE type_id = 0 -> Value(Sum(sps))
      [] type_id = 1 -> Value(Product(sps))
      [] type_id = 2 -> IF sps = <<>> THEN Raised("ValueError") ELSE Value(Min(sps))
      [] type_id = 3 -> IF sps = <<>> THEN Raised("ValueError") ELSE Value(Max(sps))
      [] type_id = 5 -> IF Len(sps) < 2 THEN Raised("IndexError")
                        ELSE Value(Int01(sps[1] < sps[2]))
      [] type_id = 6 -> IF Len(sps) < 2 THEN Raised("IndexError")
                        ELSE Value(Int01(sps[1] > sps[2]))
      [] type_id = 7 -> IF Len(sps) < 2 THEN Raised("IndexError")
                        ELSE Value(Int01(sps[1] = sps[2]))
      [] OTHER -> Raised("NotImplementedError")

\* The operation calculate applies to the list sps for an operator's type_id.
Apply(type_id, sps) ==
    CASE type_id = 0 -> Value(Sum(sps))
      [] type_id = 1 -> Value(Product(sps))
      [] type_id = 2 -> IF sps = <<>> THEN Raised("ValueError") ELSE Value(Min(sps))
      [] type_id = 3 -> IF sps = <<>> THEN Raised("ValueError") ELSE Value(Max(sps))
      [] type_id = 5 -> IF Len(sps) < 2 THEN Raised("IndexError")
                        ELSE Value(Int01(sps[1] > sps[2]))
      [] type_id = 6 -> IF Len(sps) < 2 THEN Raised("IndexError")
                        ELSE Value(Int01(sps[1] < sps[2]))
      [] type_id = 7 -> IF Len(sps) < 2 THEN Raised("IndexError")
                        ELSE Value(Int01(sps[1] = sps[2]))
      [] OTHER -> Raised("NotImplementedError")

RECURSIVE calculate(_)
calculate(packet) ==
    IF packet.type_id = 4
    THEN IF packet.kind = "Literal" THEN Value(packet.value)
         ELSE Raised("AttributeError")
    ELSE LET rs == [i \in 1..Len(packet.sub_packets) |->
                       calculate(packet.sub_packets[i])]
             bad == {i \in 1..Len(rs) : rs[i].status # "ok"}
         IN  IF bad # {}
             THEN rs[CHOOSE i \in bad : \A j \in bad : i <= j]
             ELSE Apply(packet.type_id, [i \in 1..Len(rs) |-> rs[i].val])

\* A variant of TreeAfter: the fold takes the sub-packets off the root's list.
TreeAfterConsumed(packet) ==
    IF packet.kind = "Literal" THEN packet
    ELSE [packet EXCEPT !.sub_packets = <<>>]

\* The tree after a fold ran over it: version_sum and calculate read version,
\* type_id, value and sub_packets and assign to none of them.
TreeAfter(packet) == packet

\* version_sum(packets) on the tree the decoder returned; it may be called again.
VersionSum ==
    /\ pc = "done"
    /\ vsum' = Value(version_sum(packets))
    /\ packets' = TreeAfter(packets)
    /\ UNCHANGED <<bits, bitpos, entry, pc, stack, error, returned, calc>>
    /\ UNCHANGED besidesDecoder

\* calculate(packets) on the tree the decoder returned; it may be called again.
Calculate ==
    /\ pc = "done"
    /\ calc' = calculate(packets)
    /\ packets' = TreeAfter(packets)
    /\ UNCHANGED <<bits, bitpos, entry, pc, stack, error, returned, vsum>>
    /\ UNCHANGED besidesDecoder

----------------------------------------------------------------------------
(* The streams decoded.  The format of the module's docstring, written out  *)
(* as encoders, builds well-formed and ill-framed packets; the docstrings'  *)
(* own examples and every truncation of some of them are added.             *)

\* The most packets written into the body of an ill-framed operator.
MaxSubs == 3

\* The most sub-packets of a well-framed operator.
MaxFramedSubs == 2

\* A literal: header, then the nibbles in groups of five bits, the last
\* group prefixed with 0 and the others with 1.
EncLiteral(version, nibbles) ==
    NatToBits(version, 3) \o NatToBits(4, 3)
    \o Flatten([i \in 1..Len(nibbles) |->
                  <<IF i < Len(nibbles) THEN 1 ELSE 0>> \o NatToBits(nibbles[i], 4)])

\* An operator: header, length type bit, the 15-bit or 11-bit field, the body.
EncOperator(version, type_id, length_type_id, field, body) ==
    NatToBits(version, 3) \o NatToBits(type_id, 3) \o <<length_type_id>>
    \o NatToBits(field, IF length_type_id = 0 THEN 15 ELSE 11) \o body

\* A packet to encode: a literal's nibbles, or an operator's framing and
\* sub-packets, framed as the format says (the field is the body's length in
\* bits, or the number of sub-packets).
LitSpec(version, nibbles) ==
    [kind |-> "Literal", version |-> version, nibbles |-> nibbles]

OpSpec(version, type_id, length_type_id, subs) ==
    [kind |-> "Operator", version |-> version, type_id |-> type_id,
     length_type_id |-> length_type_id, subs |-> subs]

RECURSIVE EncPacket(_)
EncPacket(s) ==
    IF s.kind = "Literal"
    THEN EncLiteral(s.version, s.nibbles)
    ELSE LET body == Flatten([i \in 1..Len(s.subs) |-> EncPacket(s.subs[i])])
         IN  EncOperator(s.version, s.type_id, s.length_type_id,
                         IF s.length_type_id = 0 THEN Len(body) ELSE Len(s.subs),
                         body)

\* Sequences of at most k members of S.
RECURSIVE SeqsUpTo(_, _)
SeqsUpTo(S, k) ==
    IF k = 0 THEN {<<>>}
    ELSE LET B == SeqsUpTo(S, k - 1) IN B \cup {Append(b, x) : b \in B, x \in S}

\* Concatenations of at most k members of S.
Bodies(S, k) == {Flatten(b) : b \in SeqsUpTo(S, k)}

\* A hex string's bits end on a multiple of four: zero padding.
Pad(s) == s \o [i \in 1..((4 - (Len(s) % 4)) % 4) |-> 0]

Prefixes(s) == {SubSeq(s, 1, n) : n \in 0..Len(s)}

OperatorTypeIds == {0, 1, 2, 3, 5, 6, 7}

Spec10 == LitSpec(6, <<10>>)
Spec20 == LitSpec(2, <<1, 4>>)
Spec010 == LitSpec(5, <<0, 10>>)
Spec0010 == LitSpec(6, <<0, 10>>)
Lit10 == EncPacket(Spec10)
Lit20 == EncPacket(Spec20)
Lit010 == EncPacket(Spec010)
GenLiterals == {Lit10, Lit20}

\* Well-framed operators over literals and one level of operators, and a few
\* one level deeper.
SubSpecs ==
    {Spec10, Spec20, Spec010,
     OpSpec(3, 0, 1, <<Spec10, Spec20>>),
     OpSpec(4, 6, 0, <<Spec20, Spec10>>)}

ExactSpecs ==
    {OpSpec(1, t, f, subs) :
        t \in OperatorTypeIds, f \in {0, 1},
        subs \in SeqsUpTo(SubSpecs, MaxFramedSubs) \ {<<>>}}

DeepSpecs ==
    {OpSpec(7, 3, f, <<s, Spec10>>) :
        f \in {0, 1},
        s \in {x \in ExactSpecs : x.type_id \in {1, 7} /\ Len(x.subs) = 2}}

WellFramed == {Spec10, Spec20, Spec010, Spec0010} \cup ExactSpecs \cup DeepSpecs

\* Ill-framed operators: declared lengths and counts chosen apart from the body.
\* Declared total lengths: none, one short literal, one bit more, two literals.
GenLengths == {0, 11, 12, 27}

FlatOperators ==
    {EncOperator(1, t, 0, n, b) :
        t \in OperatorTypeIds, n \in GenLengths, b \in Bodies(GenLiterals, MaxSubs)}
    \cup
    {EncOperator(1, t, 1, n, b) :
        t \in OperatorTypeIds, n \in 0..MaxSubs, b \in Bodies(GenLiterals, MaxSubs)}

InnerPackets ==
    {Lit10, Lit20,
     EncOperator(3, 0, 1, 2, Lit10 \o Lit20),
     EncOperator(3, 6, 0, 27, Lit10 \o Lit20),
     EncOperator(4, 2, 0, 0, <<>>),
     EncOperator(7, 1, 0, 12, Lit10 \o Lit20)}

NestedOperators ==
    {EncOperator(0, t, 1, n, b) :
        t \in {0, 5}, n \in {1, 2}, b \in Bodies(InnerPackets, 2)}
    \cup
    {EncOperator(0, t, 0, Len(b) - 1, b) :
        t \in {0, 5}, b \in Bodies(InnerPackets, 2) \ {<<>>}}

\* Literal.from_bits' doctest: '0b110100101111111000101000'.
DocLiteral ==
    <<1,1,0,1,0,0, 1,0,1,1,1, 1,1,1,1,0, 0,0,1,0,1, 0,0,0>>

\* Operator.from_bits' doctest:
\* '0b00111000000000000110111101000101001010010001001000000000'.
DocOperator ==
    <<0,0,1,1,1,0, 0, 0,0,0,0,0,0,0,0,0,0,1,1,0,1,1,
      1,1,0,1,0,0, 0,1,0,1,0,
      0,1,0,1,0,0, 1,0,0,0,1, 0,0,1,0,0,
      0,0,0,0,0,0,0>>

\* calculate's doctest, as hex digits.
DocHex ==
    {<<12,2,0,0,11,4,0,10,8,2>>,                       \* C200B40A82
     <<0,4,0,0,5,10,12,3,3,8,9,0>>,                    \* 04005AC33890
     <<8,8,0,0,8,6,12,3,14,8,8,1,1,2>>,                \* 880086C3E88112
     <<12,14,0,0,12,4,3,13,8,8,1,1,2,0>>,              \* CE00C43D881120
     <<13,8,0,0,5,10,12,2,10,8,15,0>>,                 \* D8005AC2A8F0
     <<15,6,0,0,11,12,2,13,8,15>>,                     \* F600BC2D8F
     <<9,12,0,0,5,10,12,2,15,8,15,0>>,                 \* 9C005AC2F8F0
     <<9,12,0,1,4,1,0,8,0,2,5,0,3,2,0,15,1,8,0,2,1,0,4,10,0,8>>}
                                                       \* 9C0141080250320F1802104A08

\* Complete packets, without padding: the two doctests' packets, an operator
\* framed by count and one with an operator inside.  Their prefixes are the
\* streams that end early.
CompletePackets ==
    {SubSeq(DocLiteral, 1, 21), SubSeq(DocOperator, 1, 49),
     EncOperator(1, 6, 1, 2, Lit10 \o Lit20),
     EncPacket(OpSpec(7, 3, 1, <<OpSpec(1, 1, 0, <<Spec10, Spec20>>), Spec10>>))}

\* Bits after a complete packet: none, a few of either value, a whole literal,
\* the start of an operator.
Trailers ==
    {<<>>, <<1>>, <<0, 0, 0>>, <<1, 1, 1, 1, 1, 1, 1>>, Lit10,
     <<1, 0, 1, 0, 1, 0, 0, 0, 0, 0, 0, 0, 0, 0, 0, 0, 0, 0>>}

\* The packets that such bits are put after: a literal, an operator framed by
\* length, one framed by count, and one with an operator inside.
TrailedSpecs ==
    {Spec20,
     OpSpec(1, 0, 0, <<Spec10, Spec20>>),
     OpSpec(1, 0, 1, <<Spec10, Spec20>>),
     OpSpec(7, 3, 1, <<OpSpec(1, 1, 0, <<Spec10, Spec20>>), Spec10>>)}

Streams ==
    {Pad(EncPacket(s)) : s \in WellFramed}
    \cup {EncPacket(s) \o t : s \in TrailedSpecs, t \in Trailers}
    \cup {Pad(s) : s \in FlatOperators \cup NestedOperators}
    \cup {HexToBits(h) : h \in DocHex}
    \cup Prefixes(DocLiteral) \cup Prefixes(DocOperator)
    \cup UNION {Prefixes(c) : c \in CompletePackets}

\* The streams the variants' own from_bits are called on, as their doctests do.
DirectStreams ==
    {Pad(EncPacket(s)) : s \in {Spec10, Spec20, Spec010}}
    \cup {Pad(EncPacket(s)) : s \in {x \in ExactSpecs : x.type_id = 6}}
    \cup Prefixes(DocLiteral) \cup Prefixes(DocOperator)

Entries == {"from_bits", "Literal.from_bits", "Operator.from_bits"}

----------------------------------------------------------------------------

\* The programs that a specification does not run: their variables keep the
\* values given here.
DecoderOff ==
    /\ bits = <<>>
    /\ bitpos = 0
    /\ entry = "from_bits"
    /\ pc = "off"
    /\ stack = <<>>
    /\ packets = NoPacket
    /\ error = ""
    /\ returned = <<>>
    /\ vsum = NotRun
    /\ calc = NotRun

QueueOff ==
    /\ queue = <<>>
    /\ pos = <<>>
    /\ last = [op |-> "none"]

RiskOff ==
    /\ grid = <<>>
    /\ end = <<>>
    /\ rpc = "off"
    /\ visited = {}
    /\ trace = <<>>
    /\ result = "none"

LineOff ==
    /\ line = <<>>
    /\ read = 0
    /\ closers = <<>>
    /\ outcome = [kind |-> "off"]

BoardOff ==
    /\ marked = 0
    /\ won = "off"
    /\ cells = {}

StateOff ==
    /\ xmax = 0
    /\ ymax = 0
    /\ energy_positions = <<>>
    /\ positions_energy = <<>>
    /\ flashed = {}
    /\ spc = "off"
    /\ stepped = [kind |-> "off"]
    /\ requeued = FALSE

Init ==
    /\ bits \in Streams
    /\ entry \in Entries
    /\ entry # "from_bits" => bits \in DirectStreams
    /\ bitpos = 0
    /\ pc = "call"
    /\ stack = <<>>
    /\ packets = NoPacket
    /\ error = ""
    /\ returned = <<>>
    /\ vsum = NotRun
    /\ calc = NotRun
    /\ QueueOff
    /\ RiskOff
    /\ LineOff
    /\ BoardOff
    /\ StateOff

\* The steps of the decode pass.
Decode ==
    /\ \/ Call
       \/ LiteralHeader
       \/ LiteralGroup
       \/ LiteralReturn
       \/ OperatorHeader
       \/ OperatorSubpacket
       \/ OperatorReturn
    /\ UNCHANGED besidesDecoder

Next ==
    \/ Decode
    \/ VersionSum
    \/ Calculate

Spec == Init /\ [][Next]_vars

\* The decode is one thread of straight-line code: a step that can be taken
\* is taken.
FairSpec == Spec /\ WF_vars(Decode)

----------------------------------------------------------------------------
(* MinPriorityQueue (day_15/main.py).  A heap is the pair of _queue and     *)
(* _pos; indices count from 0 as in the code.  _perculate_down carries the  *)
(* line profiler's @profile decorator, which leaves what it does unchanged. *)

\* The number of items the calls are made with.
MaxItems == 4

\* Priorities are drawn from 1..MaxPriority.
MaxPriority == 2

\* The items of the doctest; the calls use the first MaxItems of them.
ItemNames == <<"a", "b", "c", "d", "e", "f", "g", "h">>

Items == {ItemNames[i] : i \in 1..MaxItems}

Priorities == 1..MaxPriority

\* _Entry(priority, item)
Entry(priority, item) == [priority |-> priority, item |-> item]

Heap(q, m) == [queue |-> q, pos |-> m]

\* self._queue[i]
At(q, i) == q[i + 1]

\* self._queue[i] = e
Put(q, i, e) == [q EXCEPT ![i + 1] = e]

\* self._pos[item] = i
SetPos(m, item, i) ==
    [x \in DOMAIN m \cup {item} |-> IF x = item THEN i ELSE m[x]]

\* del self._pos[item]
DelPos(m, item) == [x \in DOMAIN m \ {item} |-> m[x]]

\* A variant of perculate_up: the entries are swapped in the list, and _pos
\* is left as it was.
RECURSIVE perculate_up_list_only(_, _)
perculate_up_list_only(h, index) ==
    IF index = 0 THEN h
    ELSE LET e == At(h.queue, index)
             parent_idx == (index - 1) \div 2
             parent == At(h.queue, parent_idx)
         IN  IF parent.priority <= e.priority THEN h
             ELSE perculate_up_list_only(
                    Heap(Put(Put(h.queue, parent_idx, e), index, parent), h.pos),
                    parent_idx)

\* _perculate_up(index): the entry at index moves up while its parent's
\* priority is greater.
RECURSIVE perculate_up(_, _)
perculate_up(h, index) ==
    IF index = 0 THEN h
    ELSE LET e == At(h.queue, index)
             parent_idx == (index - 1) \div 2
             parent == At(h.queue, parent_idx)
         IN  IF parent.priority <= e.priority THEN h
             ELSE perculate_up(
                    Heap(Put(Put(h.queue, parent_idx, e), index, parent),
                         SetPos(SetPos(h.pos, e.item, parent_idx), parent.item, index)),
                    parent_idx)

\* A variant of perculate_down: the right child is never looked at.
RECURSIVE perculate_down_left(_, _)
perculate_down_left(h, index) ==
    LET queue_len == Len(h.queue)
        l_idx == 2 * index + 1
    IN  IF queue_len - 1 < l_idx THEN h
        ELSE LET min_child == At(h.queue, l_idx)
                 e == At(h.queue, index)
             IN  IF min_child.priority >= e.priority THEN h
                 ELSE perculate_down_left(
                        Heap(Put(Put(h.queue, index, min_child), l_idx, e),
                             SetPos(SetPos(h.pos, min_child.item, index), e.item, l_idx)),
                        l_idx)

\* _perculate_down(index): the entry at index moves down while its smaller
\* child (the left one on a tie) has a lower priority.
RECURSIVE perculate_down(_, _)
perculate_down(h, index) ==
    LET queue_len == Len(h.queue)
        l_idx == 2 * index + 1
        r_idx == 2 * index + 2
    IN  IF queue_len - 1 < l_idx THEN h
        ELSE LET min_idx ==
                     IF queue_len - 1 >= r_idx
                        /\ At(h.queue, r_idx).priority < At(h.queue, l_idx).priority
                     THEN r_idx ELSE l_idx
                 min_child == At(h.queue, min_idx)
                 e == At(h.queue, index)
             IN  IF min_child.priority >= e.priority THEN h
                 ELSE perculate_down(
                        Heap(Put(Put(h.queue, index, min_child), min_idx, e),
                             SetPos(SetPos(h.pos, min_child.item, index), e.item, min_idx)),
                        min_idx)

\* insert(item, priority)
insert(h, item, priority) ==
    LET index == Len(h.queue)
    IN  perculate_up(Heap(Append(h.queue, Entry(priority, item)),
                          SetPos(h.pos, item, index)),
                     index)

\* pop(), for a queue with an entry at 0 whose item is a key of _pos: the
\* heap it leaves.
pop(h) ==
    LET e == At(h.queue, 0)
        m == DelPos(h.pos, e.item)
    IN  IF Len(h.queue) = 1 THEN Heap(<<>>, m)
        ELSE LET moved == h.queue[Len(h.queue)]
                 q == Put(SubSeq(h.queue, 1, Len(h.queue) - 1), 0, moved)
             IN  perculate_down(Heap(q, SetPos(m, moved.item, 0)), 0)

\* A variant of change: a priority is only ever lowered.
change_lower_only(h, item, new_priority) ==
    IF item \notin DOMAIN h.pos THEN insert(h, item, new_priority)
    ELSE LET i == h.pos[item]
             prev_priority == At(h.queue, i).priority
         IN  IF new_priority < prev_priority
             THEN perculate_up(
                    Heap(Put(h.queue, i, Entry(new_priority, At(h.queue, i).item)),
                         h.pos), i)
             ELSE h

\* change(item, new_priority)
change(h, item, new_priority) ==
    IF item \notin DOMAIN h.pos THEN insert(h, item, new_priority)
    ELSE LET i == h.pos[item]
             prev_priority == At(h.queue, i).priority
             written == Heap(Put(h.queue, i,
                                 Entry(new_priority, At(h.queue, i).item)),
                             h.pos)
         IN  IF new_priority < prev_priority THEN perculate_up(written, i)
             ELSE IF new_priority > prev_priority THEN perculate_down(written, i)
             ELSE written

\* find(item)
find(h, item) == At(h.queue, h.pos[item]).priority

\* A call, with its arguments, and what it gave: a return value (None for
\* insert and change) or the exception that left it.
Returned(op, args, value) ==
    [op |-> op, args |-> args, value |-> value, raised |-> ""]

None == "None"

Threw(op, args, e) == [op |-> op, args |-> args, raised |-> e]

\* The items of the entries in the queue.
Queued == {queue[i].item : i \in 1..Len(queue)}

\* queue.insert(item, priority), called with an item that is not in the queue.
Insert(item, priority) ==
    /\ item \notin Queued
    /\ LET h == insert(Heap(queue, pos), item, priority)
       IN  queue' = h.queue /\ pos' = h.pos
    /\ last' = Returned("insert", <<item, priority>>, None)
    /\ UNCHANGED besidesQueue

\* queue.pop(): self._queue[0] raises IndexError on an empty list, and
\* del self._pos[...] raises KeyError for a missing key, before anything is
\* written.
Pop ==
    /\ IF queue = <<>>
       THEN /\ last' = Threw("pop", <<>>, "IndexError")
            /\ UNCHANGED <<queue, pos>>
       ELSE IF At(queue, 0).item \notin DOMAIN pos
       THEN /\ last' = Threw("pop", <<>>, "KeyError")
            /\ UNCHANGED <<queue, pos>>
       ELSE /\ LET h == pop(Heap(queue, pos))
               IN  queue' = h.queue /\ pos' = h.pos
            /\ last' = Returned("pop", <<>>, <<At(queue, 0).item, At(queue, 0).priority>>)
    /\ UNCHANGED besidesQueue

\* queue.change(item, new_priority); self._queue[self._pos[item]] raises
\* IndexError when the index kept for the item is past the end.
Change(item, new_priority) ==
    /\ IF item \in DOMAIN pos /\ pos[item] >= Len(queue)
       THEN /\ last' = Threw("change", <<item, new_priority>>, "IndexError")
            /\ UNCHANGED <<queue, pos>>
       ELSE /\ LET h == change(Heap(queue, pos), item, new_priority)
               IN  queue' = h.queue /\ pos' = h.pos
            /\ last' = Returned("change", <<item, new_priority>>, None)
    /\ UNCHANGED besidesQueue

\* queue.find(item); a missing key raises KeyError.
Find(item) ==
    /\ IF item \notin DOMAIN pos
       THEN last' = Threw("find", <<item>>, "KeyError")
       ELSE IF pos[item] >= Len(queue)
       THEN last' = Threw("find", <<item>>, "IndexError")
       ELSE last' = Returned("find", <<item>>, find(Heap(queue, pos), item))
    /\ UNCHANGED <<queue, pos>>
    /\ UNCHANGED besidesQueue

\* The class's doctest: eight inserts, then finds, pops and a change.
DocInserts ==
    <<<<"a", 10>>, <<"b", 5>>, <<"c", 9>>, <<"d", 15>>,
      <<"e", 8>>, <<"f", 1>>, <<"g", 2>>, <<"h", 3>>>>

RECURSIVE InsertAll(_, _)
InsertAll(h, xs) ==
    IF xs = <<>> THEN h
    ELSE InsertAll(insert(h, Head(xs)[1], Head(xs)[2]), Tail(xs))

\* What pop() returns.
Popped(h) == <<At(h.queue, 0).item, At(h.queue, 0).priority>>

\* What n calls of pop() return, one after another.
RECURSIVE Pops(_, _)
Pops(h, n) == IF n = 0 THEN <<>> ELSE <<Popped(h)>> \o Pops(pop(h), n - 1)

RECURSIVE AfterPops(_, _)
AfterPops(h, n) == IF n = 0 THEN h ELSE AfterPops(pop(h), n - 1)

\* The doctest's calls give what the doctest expects.
DocTest ==
    LET filled == InsertAll(Heap(<<>>, <<>>), DocInserts)
        changed == change(pop(filled), "a", 100)
    IN  /\ Len(filled.queue) = 8
        /\ find(filled, "c") = 9
        /\ Popped(filled) = <<"f", 1>>
        /\ Pops(changed, 4) = <<<<"g", 2>>, <<"h", 3>>, <<"b", 5>>, <<"e", 8>>>>
        /\ find(AfterPops(changed, 4), "a") = 100
        /\ Pops(AfterPops(changed, 4), 3) = <<<<"c", 9>>, <<"d", 15>>, <<"a", 100>>>>
        /\ AfterPops(changed, 7) = Heap(<<>>, <<>>)

\* MinPriorityQueue(): an empty list and an empty dict.  No stream is decoded
\* and no path is searched.
InitQueue ==
    /\ queue = <<>>
    /\ pos = <<>>
    /\ last = [op |-> "none"]
    /\ DecoderOff
    /\ RiskOff
    /\ LineOff
    /\ BoardOff
    /\ StateOff

NextQueue ==
    \/ \E item \in Items, priority \in Priorities : Insert(item, priority)
    \/ Pop
    \/ \E item \in Items, priority \in Priorities : Change(item, priority)
    \/ \E item \in Items : Find(item)

SpecQueue == InitQueue /\ [][NextQueue]_vars

----------------------------------------------------------------------------
(* lowest_risk of day_15/main.py: Dijkstra's search over a Grid, on the    *)
(* MinPriorityQueue above.  A third specification, SpecRisk, runs it with   *)
(* one action for the statements before the loop, one for each turn of the *)
(* while loop, and one for the raise after it; the queue is the list       *)
(* `queue` and the dict `pos`.                                             *)

\* The largest x and y of the grids searched.
MaxX == 2

MaxY == 1

\* The risks written in the cells.
Risks == {1, 9}

Position(x, y) == [x |-> x, y |-> y]

\* Grid(grid, n)
Grid(rows, n) == [rows |-> rows, n |-> n]

\* Grid.maxx and Grid.maxy
maxx(g) == g.n * Len(g.rows[1]) - 1

maxy(g) == g.n * Len(g.rows) - 1

\* Grid.__getitem__(pos), for a position within the tiled grid (the two
\* asserts hold for every position neighbours yields).
GridAt(g, p) ==
    LET x_sect == p.x \div Len(g.rows[1])
        x_off == p.x % Len(g.rows[1])
        y_sect == p.y \div Len(g.rows)
        y_off == p.y % Len(g.rows)
        risk == g.rows[y_off + 1][x_off + 1]
    IN  1 + ((risk - 1 + x_sect + y_sect) % 9)

\* The nine (dx, dy) of the two nested loops over [-1, 0, 1], in loop order.
Deltas ==
    LET offsets == <<-1, 0, 1>>
    IN  [k \in 1..9 |-> <<offsets[((k - 1) \div 3) + 1], offsets[((k - 1) % 3) + 1]>>]

\* A variant of neighbours: the diagonal steps are kept.
neighbours_diagonal(p, mx, my) ==
    LET nx(d) == p.x + d[1]
        ny(d) == p.y + d[2]
        kept(d) == /\ ~(d[1] = 0 /\ d[2] = 0)
                   /\ ~(nx(d) < 0 \/ nx(d) > mx \/ ny(d) < 0 \/ ny(d) > my)
        ds == SelectSeq(Deltas, kept)
    IN  [i \in 1..Len(ds) |-> Position(nx(ds[i]), ny(ds[i]))]

\* neighbours(p, maxx, maxy): the positions yielded, in the order yielded.
neighbours(p, mx, my) ==
    LET nx(d) == p.x + d[1]
        ny(d) == p.y + d[2]
        kept(d) == /\ (d[1] = 0 \/ d[2] = 0)
                   /\ ~(d[1] = 0 /\ d[2] = 0)
                   /\ ~(nx(d) < 0 \/ nx(d) > mx \/ ny(d) < 0 \/ ny(d) > my)
        ds == SelectSeq(Deltas, kept)
    IN  [i \in 1..Len(ds) |-> Position(nx(ds[i]), ny(ds[i]))]

\* The calls recorded in `trace`.
PopCall(p, risk) == [op |-> "pop", pos |-> p, risk |-> risk]

ChangeCall(p, risk) == [op |-> "change", pos |-> p, risk |-> risk]

\* A variant of Relax: a visited neighbour is not skipped.
RECURSIVE Relax_revisits(_, _, _, _, _)
Relax_revisits(st, ns, risk, g, seen) ==
    IF ns = <<>> THEN st
    ELSE LET neighbour == Head(ns)
             path_risk == risk + GridAt(g, neighbour)
         IN  IF \/ neighbour \notin DOMAIN st.heap.pos
                \/ path_risk < find(st.heap, neighbour)
             THEN Relax_revisits(
                    [heap |-> change(st.heap, neighbour, path_risk),
                     trace |-> Append(st.trace, ChangeCall(neighbour, path_risk))],
                    Tail(ns), risk, g, seen)
             ELSE Relax_revisits(st, Tail(ns), risk, g, seen)

\* The for loop over the neighbours of the popped position: st is the queue
\* and the trace so far, ns the neighbours still to come.
RECURSIVE Relax(_, _, _, _, _)
Relax(st, ns, risk, g, seen) ==
    IF ns = <<>> THEN st
    ELSE LET neighbour == Head(ns)
             path_risk == risk + GridAt(g, neighbour)
         IN  IF neighbour \in seen THEN Relax(st, Tail(ns), risk, g, seen)
             ELSE IF \/ neighbour \notin DOMAIN st.heap.pos
                     \/ path_risk < find(st.heap, neighbour)
             THEN Relax([heap |-> change(st.heap, neighbour, path_risk),
                         trace |-> Append(st.trace, ChangeCall(neighbour, path_risk))],
                        Tail(ns), risk, g, seen)
             ELSE Relax(st, Tail(ns), risk, g, seen)

\* The position the search starts from.
start == Position(0, 0)

\* pq = MinPriorityQueue(); pq.change(start, 0); visited = set()
Begin ==
    /\ rpc = "call"
    /\ LET h == change(Heap(<<>>, <<>>), start, 0)
       IN  queue' = h.queue /\ pos' = h.pos
    /\ visited' = {}
    /\ trace' = <<ChangeCall(start, 0)>>
    /\ rpc' = "loop"
    /\ UNCHANGED <<grid, end, result>>
    /\ UNCHANGED besidesRisk

\* One turn of `while pq`: pop, mark visited, return at the end position,
\* else go through the neighbours.
Visit ==
    /\ rpc = "loop"
    /\ Len(queue) # 0
    /\ LET p == At(queue, 0).item
           risk == At(queue, 0).priority
           h == pop(Heap(queue, pos))
           seen == visited \cup {p}
           popped == Append(trace, PopCall(p, risk))
       IN  /\ visited' = seen
           /\ IF p = end
              THEN /\ rpc' = "done"
                   /\ result' = risk
                   /\ queue' = h.queue
                   /\ pos' = h.pos
                   /\ trace' = popped
              ELSE LET st == Relax([heap |-> h, trace |-> popped],
                                   neighbours(p, maxx(grid), maxy(grid)),
                                   risk, grid, seen)
                   IN  /\ queue' = st.heap.queue
                       /\ pos' = st.heap.pos
                       /\ trace' = st.trace
                       /\ UNCHANGED <<rpc, result>>
    /\ UNCHANGED <<grid, end>>
    /\ UNCHANGED besidesRisk

\* The queue ran empty before the end position was popped.
Fail ==
    /\ rpc = "loop"
    /\ Len(queue) = 0
    /\ rpc' = "error"
    /\ result' = "ValueError"
    /\ UNCHANGED <<grid, end, visited, trace, queue, pos>>
    /\ UNCHANGED besidesRisk

\* The grid of the function's doctest.
DocGrid == Grid(<<<<1, 2, 3>>, <<1, 1, 9>>, <<3, 1, 1>>>>, 1)

\* The grids searched: every grid of the largest size, the smaller grids
\* tiled twice in each direction, and the doctest's.
Grids ==
    {Grid(rows, 1) : rows \in [1..(MaxY + 1) -> [1..(MaxX + 1) -> Risks]]}
    \cup {Grid(rows, 2) : rows \in [1..MaxY -> [1..MaxX -> Risks]]}
    \cup {DocGrid}

\* The end positions: the far corner and the corner above it; for the
\* doctest's grid the start itself and a position outside the grid as well.
Ends(g) ==
    {Position(maxx(g), maxy(g)), Position(maxx(g), 0)}
    \cup (IF g = DocGrid THEN {start, Position(maxx(g) + 1, maxy(g))} ELSE {})

InitRisk ==
    /\ grid \in Grids
    /\ end \in Ends(grid)
    /\ rpc = "call"
    /\ visited = {}
    /\ trace = <<>>
    /\ result = "none"
    /\ QueueOff
    /\ DecoderOff
    /\ LineOff
    /\ BoardOff
    /\ StateOff

NextRisk ==
    \/ Begin
    \/ Visit
    \/ Fail

SpecRisk == InitRisk /\ [][NextRisk]_vars

----------------------------------------------------------------------------
(* Properties.  What a claim expects is written from the format, apart     *)
(* from the decoder: bit weights read straight from the stream, and the    *)
(* tree a framed packet stands for.                                        *)

RECURSIVE Pow(_, _)
Pow(b, n) == IF n = 0 THEN 1 ELSE b * Pow(b, n - 1)

\* The tree a packet to encode stands for.
RECURSIVE PacketOf(_)
PacketOf(s) ==
    IF s.kind = "Literal"
    THEN [kind |-> "Literal", version |-> s.version, type_id |-> 4,
          value |-> LET k == Len(s.nibbles)
                        RECURSIVE weigh(_)
                        weigh(i) == IF i > k THEN 0
                                    ELSE s.nibbles[i] * Pow(16, k - i) + weigh(i + 1)
                    IN  weigh(1)]
    ELSE [kind |-> "Operator", version |-> s.version, type_id |-> s.type_id,
          sub_packets |-> [i \in 1..Len(s.subs) |-> PacketOf(s.subs[i])]]

\* The well-framed operators with their streams and trees.
FramedCases ==
    {[bits |-> Pad(EncPacket(s)), packet |-> PacketOf(s),
      length_type_id |-> s.length_type_id] : s \in ExactSpecs \cup DeepSpecs}

\* Every packet of a tree, the root first.
RECURSIVE Nodes(_)
Nodes(packet) ==
    IF packet.kind = "Literal" THEN <<packet>>
    ELSE <<packet>> \o Flatten([i \in 1..Len(packet.sub_packets) |->
                                   Nodes(packet.sub_packets[i])])

Finished == pc \in {"done", "error"}

\* The calls of Operator.from_bits that returned, with the given length type.
OperatorReturns(f) ==
    {i \in 1..Len(returned) :
        returned[i].fn = "Operator" /\ returned[i].length_type_id = f}

\* The sub-packets of returned[i] lie one after another from `start` to the
\* cursor at the return, and the k-th of them is the packet the call at the
\* k-th place returned.
InStreamOrder(i) ==
    LET e == returned[i]
        n == Len(e.spans)
    IN  /\ Len(e.packet.sub_packets) = n
        /\ e.end = (IF n = 0 THEN e.start ELSE e.spans[n][2])
        /\ \A k \in 1..n :
              /\ e.spans[k][1] = (IF k = 1 THEN e.start ELSE e.spans[k - 1][2])
              /\ \E j \in 1..(i - 1) :
                    /\ returned[j].begin = e.spans[k][1]
                    /\ returned[j].end = e.spans[k][2]
                    /\ returned[j].packet = e.packet.sub_packets[k]

(* C1: an Operator.from_bits call with length type 0 returns only when the  *)
(* bits its sub-packets consumed since `start` equal the declared total     *)
(* length exactly; an overshoot never returns an Operator.                  *)
C1_ExactTotalLength ==
    \A i \in OperatorReturns(0) :
        returned[i].end - returned[i].start = returned[i].declared

\* An operator returned although its sub-packets ran past the declared length.
C1_Overshoot ==
    \E i \in OperatorReturns(0) :
        returned[i].end - returned[i].start > returned[i].declared

(* C2: an Operator.from_bits call with length type 1 returns an Operator    *)
(* with exactly sub_packet_count sub-packets, the packets that lie one      *)
(* after another behind the 11-bit field, in stream order, whatever their   *)
(* sizes; a well-framed count-framed operator decodes to its tree.          *)
C2_CountFraming ==
    /\ \A i \in OperatorReturns(1) :
          /\ Len(returned[i].packet.sub_packets) = returned[i].declared
          /\ returned[i].start = returned[i].begin + 18
          /\ InStreamOrder(i)
    /\ Finished /\ entry # "Literal.from_bits" =>
          \A c \in FramedCases :
              c.length_type_id = 1 /\ c.bits = bits =>
                  pc = "done" /\ packets = c.packet

\* A count-framed operator returned three sub-packets of different sizes.
C2_Witness ==
    \E i \in OperatorReturns(1) :
        /\ returned[i].declared = 3
        /\ Len(returned[i].packet.sub_packets) = 3
        /\ \E k \in 1..2 :
              returned[i].spans[k][2] - returned[i].spans[k][1]
                  # returned[i].spans[k + 1][2] - returned[i].spans[k + 1][1]

\* The nibble of the five-bit group at position q (0-based).
GroupNibble(q) == 8 * bits[q + 2] + 4 * bits[q + 3] + 2 * bits[q + 4] + bits[q + 5]

\* The value of k groups from position p, the first the most significant.
RECURSIVE GroupsValue(_, _)
GroupsValue(p, k) ==
    IF k = 0 THEN 0
    ELSE GroupNibble(p) * Pow(16, k - 1) + GroupsValue(p + 5, k - 1)

(* C3: Literal.from_bits reads five-bit groups after the six-bit header,    *)
(* stops at the first group whose continuation bit is 0, and returns the    *)
(* value whose nibbles are the groups' value bits, the first group the most *)
(* significant; 110100101111111000101000 gives version 6 and value 2021.    *)
C3_LiteralValue ==
    /\ \A i \in 1..Len(returned) :
          returned[i].fn = "Literal" =>
            LET e == returned[i]
                k == (e.end - e.begin - 6) \div 5
            IN  /\ e.end - e.begin = 6 + 5 * k
                /\ k >= 1
                /\ \A g \in 1..k :
                      bits[e.begin + 6 + 5 * (g - 1) + 1] = (IF g < k THEN 1 ELSE 0)
                /\ e.packet.value = GroupsValue(e.begin + 6, k)
                /\ e.packet.version
                      = 4 * bits[e.begin + 1] + 2 * bits[e.begin + 2] + bits[e.begin + 3]
    /\ bits = DocLiteral /\ entry # "Operator.from_bits" /\ Finished =>
          /\ pc = "done"
          /\ packets = [kind |-> "Literal", version |-> 6, type_id |-> 4,
                        value |-> 2021]

\* The doctest's literal was decoded: three groups, value 2021.
C3_Witness ==
    /\ bits = DocLiteral
    /\ entry = "Literal.from_bits"
    /\ pc = "done"
    /\ bitpos = 21
    /\ packets.value = 2021

(* C4: a length-type-0 operator whose declared total length is the summed   *)
(* encoded length of k consecutive well-formed packets decodes to an       *)
(* Operator with the header's version and type_id and exactly those k       *)
(* packets in stream order; the 56-bit doctest gives version 1, type_id 6   *)
(* and the Literals 10 and 20.                                              *)
C4_TotalLengthFraming ==
    /\ Finished /\ entry # "Literal.from_bits" =>
          \A c \in FramedCases :
              c.length_type_id = 0 /\ c.bits = bits =>
                  pc = "done" /\ packets = c.packet
    /\ \A i \in OperatorReturns(0) :
          returned[i].end - returned[i].start = returned[i].declared =>
              /\ returned[i].start = returned[i].begin + 22
              /\ InStreamOrder(i)
    /\ bits = DocOperator /\ entry # "Literal.from_bits" /\ Finished =>
          /\ pc = "done"
          /\ packets =
               [kind |-> "Operator", version |-> 1, type_id |-> 6,
                sub_packets |->
                   <<[kind |-> "Literal", version |-> 6, type_id |-> 4, value |-> 10],
                     [kind |-> "Literal", version |-> 2, type_id |-> 4, value |-> 20]>>]

\* The doctest's operator was decoded: 27 declared bits, two sub-packets.
C4_Witness ==
    /\ bits = DocOperator
    /\ entry = "Operator.from_bits"
    /\ pc = "done"
    /\ Len(packets.sub_packets) = 2
    /\ \E i \in OperatorReturns(0) :
          returned[i].declared = 27 /\ returned[i].end - returned[i].start = 27

\* The operators of a tree.
OperatorNodes(packet) ==
    LET ns == Nodes(packet)
    IN  {ns[i] : i \in {j \in 1..Len(ns) : ns[j].kind = "Operator"}}

\* Sum, product, least and greatest of a list, from the right and by choice.
RECURSIVE SumOf(_)
SumOf(xs) == IF xs = <<>> THEN 0 ELSE Head(xs) + SumOf(Tail(xs))

RECURSIVE ProductOf(_)
ProductOf(xs) == IF xs = <<>> THEN 1 ELSE Head(xs) * ProductOf(Tail(xs))

Elements(xs) == {xs[i] : i \in 1..Len(xs)}

Least(xs) == CHOOSE m \in Elements(xs) : \A x \in Elements(xs) : m <= x

Greatest(xs) == CHOOSE m \in Elements(xs) : \A x \in Elements(xs) : m >= x

\* The table of operations: what type_id yields on the values xs.
Operation(type_id, xs) ==
    CASE type_id = 0 -> SumOf(xs)
      [] type_id = 1 -> ProductOf(xs)
      [] type_id = 2 -> Least(xs)
      [] type_id = 3 -> Greatest(xs)
      [] type_id = 5 -> IF xs[1] > xs[2] THEN 1 ELSE 0
      [] type_id = 6 -> IF xs[1] < xs[2] THEN 1 ELSE 0
      [] type_id = 7 -> IF xs[1] = xs[2] THEN 1 ELSE 0

\* The arity the table asks of an operator.
ArityFits(packet) ==
    IF packet.type_id \in {5, 6, 7}
    THEN Len(packet.sub_packets) = 2
    ELSE Len(packet.sub_packets) >= 1

\* calculate's doctest: the hex digits and the value printed.
DocResults ==
    {<< <<12,2,0,0,11,4,0,10,8,2>>, 3 >>,
     << <<0,4,0,0,5,10,12,3,3,8,9,0>>, 54 >>,
     << <<8,8,0,0,8,6,12,3,14,8,8,1,1,2>>, 7 >>,
     << <<12,14,0,0,12,4,3,13,8,8,1,1,2,0>>, 9 >>,
     << <<13,8,0,0,5,10,12,2,10,8,15,0>>, 1 >>,
     << <<15,6,0,0,11,12,2,13,8,15>>, 0 >>,
     << <<9,12,0,0,5,10,12,2,15,8,15,0>>, 0 >>,
     << <<9,12,0,1,4,1,0,8,0,2,5,0,3,2,0,15,1,8,0,2,1,0,4,10,0,8>>, 1 >>}

(* C5: calculate returns a Literal's value, and for an Operator of fitting  *)
(* arity the operation its type_id selects applied to the calculated values *)
(* of its sub-packets in their order: 0 sum, 1 product, 2 minimum,          *)
(* 3 maximum, 5 first > second, 6 first < second, 7 first = second; the     *)
(* doctest's hex strings give 3, 54, 7, 9, 1, 0, 0, 1.                      *)
C5_Calculate ==
    /\ calc # NotRun =>
          LET ns == Nodes(packets)
          IN  \A i \in 1..Len(ns) :
                IF ns[i].kind = "Literal"
                THEN calculate(ns[i]) = Value(ns[i].value)
                ELSE LET rs == [k \in 1..Len(ns[i].sub_packets) |->
                                   calculate(ns[i].sub_packets[k])]
                     IN  (ArityFits(ns[i]) /\ \A k \in 1..Len(rs) : rs[k].status = "ok")
                         => calculate(ns[i])
                              = Value(Operation(ns[i].type_id,
                                                [k \in 1..Len(rs) |-> rs[k].val]))
    /\ calc # NotRun /\ entry = "from_bits" =>
          \A d \in DocResults : bits = HexToBits(d[1]) => calc = Value(d[2])

\* The last doctest was calculated: 1 + 3 = 2 * 2 on a tree of three operators.
C5_Witness ==
    /\ bits = HexToBits(<<9,12,0,1,4,1,0,8,0,2,5,0,3,2,0,15,1,8,0,2,1,0,4,10,0,8>>)
    /\ entry = "from_bits"
    /\ calc = Value(1)
    /\ Len(Nodes(packets)) = 7

(* C6: calculate on an Operator with type_id 5, 6 or 7 whose sub_packets    *)
(* are not exactly two fails with an error and returns no comparison of the *)
(* first two operands.                                                      *)
C6_ComparisonArity ==
    calc # NotRun =>
        \A op \in OperatorNodes(packets) :
            op.type_id \in {5, 6, 7} /\ Len(op.sub_packets) # 2 =>
                calculate(op).status = "raise"

\* A comparison of three operands was calculated to a value.
C6_ThreeOperands ==
    /\ calc.status = "ok"
    /\ packets.kind = "Operator"
    /\ packets.type_id \in {5, 6, 7}
    /\ Len(packets.sub_packets) = 3

(* C7: on every tree a successful from_bits call returned, version_sum and  *)
(* calculate both return an integer and raise nothing.                      *)
C7_FoldsTotal ==
    /\ vsum # NotRun => vsum.status = "ok"
    /\ calc # NotRun => calc.status = "ok"

\* calculate raised on a decoded tree.
C7_CalculateRaised ==
    /\ pc = "done"
    /\ entry = "from_bits"
    /\ calc.status = "raise"

(* C8: every Operator of a tree a successful decode returned has at least   *)
(* one sub-packet, also when the length field read from the stream is 0.    *)
C8_NonEmptyOperators ==
    pc = "done" =>
        \A op \in OperatorNodes(packets) : Len(op.sub_packets) >= 1

\* An operator whose length field is 0 was returned without sub-packets.
C8_EmptyOperator ==
    \E i \in 1..Len(returned) :
        /\ returned[i].fn = "Operator"
        /\ returned[i].declared = 0
        /\ returned[i].packet.sub_packets = <<>>

(* C9: every packet of a tree from_bits produced has version in 0..7 and    *)
(* type_id in 0..7, and its type_id is 4 exactly when it is a Literal, at   *)
(* every depth.                                                             *)
C9_HeaderFields ==
    /\ \A i \in 1..Len(returned) :
          LET packet == returned[i].packet
          IN  /\ packet.version \in 0..7
              /\ packet.type_id \in 0..7
              /\ packet.type_id = 4 <=> packet.kind = "Literal"
              /\ packet.kind = "Literal" <=> returned[i].fn = "Literal"
    /\ pc = "done" =>
          LET ns == Nodes(packets)
          IN  \A i \in 1..Len(ns) :
                /\ ns[i].version \in 0..7
                /\ ns[i].type_id \in 0..7
                /\ ns[i].type_id = 4 <=> ns[i].kind = "Literal"

\* The depth of a tree.
RECURSIVE Depth(_)
Depth(packet) ==
    IF packet.kind = "Literal" \/ packet.sub_packets = <<>> THEN 1
    ELSE 1 + Greatest([i \in 1..Len(packet.sub_packets) |->
                          Depth(packet.sub_packets[i])])

\* A tree three packets deep, with both variants, came out of from_bits.
C9_Witness ==
    /\ pc = "done"
    /\ entry = "from_bits"
    /\ packets.kind = "Operator"
    /\ Depth(packets) = 3
    /\ \E op \in OperatorNodes(packets) : op.version = 7

\* A list back to front.
Reverse(xs) == [i \in 1..Len(xs) |-> xs[Len(xs) + 1 - i]]

(* C10: version_sum is the sum of the version field over every packet of    *)
(* the tree, a Literal giving its own version and an Operator its version   *)
(* plus the version_sum of each sub-packet, in whichever order the          *)
(* versions are summed.                                                     *)
C10_VersionSum ==
    vsum # NotRun =>
        LET ns == Nodes(packets)
            versions == [i \in 1..Len(ns) |-> ns[i].version]
        IN  /\ vsum = Value(SumOf(versions))
            /\ vsum = Value(SumOf(Reverse(versions)))
            /\ vsum = Value(SumOf([i \in 1..Len(returned) |->
                                      returned[i].packet.version]))
            /\ \A i \in 1..Len(ns) :
                  version_sum(ns[i]) =
                     IF ns[i].kind = "Literal" THEN ns[i].version
                     ELSE ns[i].version
                          + SumOf(Reverse([k \in 1..Len(ns[i].sub_packets) |->
                                              version_sum(ns[i].sub_packets[k])]))

\* version_sum ran over a tree three packets deep.
C10_Witness ==
    /\ vsum.status = "ok"
    /\ packets.kind = "Operator"
    /\ Depth(packets) = 3
    /\ vsum.val > packets.version

----------------------------------------------------------------------------
\* C11: a stream that ends before its packet is complete (inside a header, a
\* length field, a literal group or a sub-packet the framing still asks for)
\* makes the decode fail with the out-of-bits error, and a failed decode
\* returns no packet: neither the cut one nor an operator around it with the
\* sub-packets decoded so far, and nothing is folded.
C11_TruncatedFails ==
    /\ pc = "error" => packets = NoPacket /\ vsum = NotRun /\ calc = NotRun
    /\ (/\ Finished
        /\ entry = "from_bits"
        /\ \E c \in CompletePackets :
              Len(bits) < Len(c) /\ bits = SubSeq(c, 1, Len(bits)))
       => pc = "error" /\ error = "ReadError"

\* A stream cut inside the second sub-packet of the inner operator: the
\* first sub-packet was decoded, two operators were open, and the decode
\* failed at the group that is not all there.
C11_Witness ==
    /\ pc = "error"
    /\ error = "ReadError"
    /\ entry = "from_bits"
    /\ \E c \in CompletePackets :
          Len(bits) < Len(c) /\ bits = SubSeq(c, 1, Len(bits))
    /\ Len(returned) = 1
    /\ returned[1].begin = 40
    /\ bitpos > returned[1].end
    /\ packets = NoPacket

----------------------------------------------------------------------------
\* C12: peeking the 3-bit version and the 3-bit type_id leaves the cursor
\* where it was: a step that calls a variant's parser (the stack grows) does
\* not move the cursor, and the parser called starts to read its header at
\* the position the peek started at, at the top level and for every
\* sub-packet.
C12_PeekKeepsCursor ==
    /\ [](pc = "running" /\ stack # <<>> /\ Top.at = "header"
            => Top.begin = bitpos)
    /\ [][Len(stack') = Len(stack) + 1
            => bitpos' = bitpos /\ stack'[Len(stack')].begin = bitpos]_vars

\* The parser of a sub-packet two operators deep was called after a peek, the
\* cursor past the enclosing headers.
C12_Witness ==
    /\ entry = "from_bits"
    /\ pc = "running"
    /\ Len(stack) = 3
    /\ Top.at = "header"
    /\ Top.begin = bitpos
    /\ bitpos > 0

----------------------------------------------------------------------------
\* C13: during a decode the cursor never decreases from one step to the next
\* and always lies within 0..length of the stream; a read that would take it
\* past the end raises the out-of-bits error instead, with the cursor still
\* within the stream.
C13_CursorMonotoneInRange ==
    /\ [](bitpos \in 0..Len(bits))
    /\ [](error = "ReadError" => pc = "error" /\ bitpos <= Len(bits))
    /\ [][bitpos' >= bitpos]_vars

\* A read of a literal group of five bits was refused with fewer than five
\* bits left, the cursor inside the stream.
C13_Witness ==
    /\ pc = "error"
    /\ error = "ReadError"
    /\ bitpos > 6
    /\ bitpos < Len(bits)
    /\ bitpos + 5 > Len(bits)

----------------------------------------------------------------------------
\* Where the decode stands between two reads: the open calls, and whether the
\* innermost has read its header.
Rank ==
    IF pc = "call" THEN 3
    ELSE IF stack = <<>> THEN 0
    ELSE 2 * Len(stack) + (IF Top.at = "header" THEN 0 ELSE 3)

\* What is left to do: the bits not yet read first, then the rank.
Measure == 4 * (Len(bits) - bitpos) + Rank

\* C14: on every finite stream the decode eventually finishes, by returning
\* or by raising.  Every step of it lowers a measure that is never negative;
\* every call that returned moved the cursor forward, and every sub-packet
\* returned to an operator's loop raises the count of the sub-packets parsed
\* by one, so each turn of a loop advances the cursor and lowers the number of
\* sub-packets still to decode.
C14_Terminates ==
    /\ <>Finished
    /\ [](Measure >= 0)
    /\ [](\A i \in 1..Len(returned) : returned[i].end > returned[i].begin)
    /\ [][(pc \in {"call", "running"}) => (Measure' < Measure)]_vars
    /\ [][Len(stack') = Len(stack) - 1 /\ stack' # <<>>
            => /\ stack'[Len(stack')].n_parsed = stack[Len(stack')].n_parsed + 1
               /\ bitpos > stack[Len(stack')].start]_vars

\* A decode that finished after three turns of an operator's loop and a
\* literal of two groups.
C14_Witness ==
    /\ pc = "done"
    /\ entry = "from_bits"
    /\ packets.kind = "Operator"
    /\ Len(packets.sub_packets) = 3
    /\ \E i \in 1..Len(returned) :
          returned[i].fn = "Literal" /\ returned[i].end - returned[i].begin = 16

----------------------------------------------------------------------------
\* A complete packet followed by each of the trailers, with the tree it stands
\* for and the position where it ends.
TrailedCases ==
    {[bits |-> EncPacket(s) \o t, packet |-> PacketOf(s),
      end |-> Len(EncPacket(s)), trailer |-> t] :
        s \in TrailedSpecs, t \in Trailers}

\* C15: the bits after the last complete top-level packet are ignored:
\* whatever follows the packet, from_bits returns the same tree and stops with
\* the cursor at the end of that packet.
C15_TrailingIgnored ==
    (Finished /\ entry = "from_bits")
    => \A c \in TrailedCases :
          c.bits = bits
          => pc = "done" /\ packets = c.packet /\ bitpos = c.end

\* An operator framed by length with a whole literal after it: the decode
\* returned the operator with its two sub-packets and stopped before the
\* literal that follows.
C15_Witness ==
    /\ pc = "done"
    /\ entry = "from_bits"
    /\ \E c \in TrailedCases :
          /\ c.bits = bits
          /\ c.trailer = Lit10
          /\ packets = c.packet
    /\ packets.kind = "Operator"
    /\ returned[Len(returned)].length_type_id = 0
    /\ Len(bits) - bitpos = 11

----------------------------------------------------------------------------
\* The type_id in the header the stream starts with.
FirstTypeId == BitsToNat(SubSeq(bits, 4, 6))

\* C16: Literal.from_bits fails with the mismatch error when the header's
\* type_id is not 4 and Operator.from_bits fails with it when the type_id is
\* 4, and only then; no packet is returned.  from_bits chooses the variant
\* from the type_id it peeked, so a decode through it never raises that error.
C16_VariantMismatch ==
    /\ entry = "from_bits" => error # "ValueError"
    /\ (Finished /\ entry = "Literal.from_bits" /\ Len(bits) >= 6)
       => (FirstTypeId # LiteralTypeId
             <=> pc = "error" /\ error = "ValueError" /\ packets = NoPacket)
    /\ (Finished /\ entry = "Operator.from_bits" /\ Len(bits) >= 6)
       => (FirstTypeId = LiteralTypeId
             <=> pc = "error" /\ error = "ValueError" /\ packets = NoPacket)

\* Operator.from_bits was called on the literal of Literal.from_bits' doctest
\* and raised the mismatch error after the two header fields.
C16_Witness ==
    /\ entry = "Operator.from_bits"
    /\ bits = DocLiteral
    /\ pc = "error"
    /\ error = "ValueError"
    /\ bitpos = 6

----------------------------------------------------------------------------
\* The fewest nibbles that hold a value.
RECURSIVE Nibbles(_)
Nibbles(value) ==
    IF value < 16 THEN <<value>>
    ELSE Append(Nibbles(value \div 16), value % 16)

\* A packet to encode without what the tree does not keep: the literals'
\* leading groups of zeros are dropped and every operator is framed by count.
RECURSIVE Normal(_)
Normal(s) ==
    IF s.kind = "Literal"
    THEN LitSpec(s.version, Nibbles(PacketOf(s).value))
    ELSE OpSpec(s.version, s.type_id, 1,
                [i \in 1..Len(s.subs) |-> Normal(s.subs[i])])

\* A tree written back as a packet to encode, with the fewest groups and
\* count framing.
RECURSIVE SpecOf(_)
SpecOf(packet) ==
    IF packet.kind = "Literal"
    THEN LitSpec(packet.version, Nibbles(packet.value))
    ELSE OpSpec(packet.version, packet.type_id, 1,
                [i \in 1..Len(packet.sub_packets) |-> SpecOf(packet.sub_packets[i])])

\* The well-framed packets with their streams, their trees and what the
\* trees keep of them.
ValidCases ==
    {[bits |-> Pad(EncPacket(s)), packet |-> PacketOf(s), spec |-> s,
      kept |-> Pad(EncPacket(Normal(s)))] : s \in WellFramed}

\* C17 as stated: the tree decoded from a valid stream retains the group
\* count of every literal and the length type of every operator, so that the
\* stream can be written back from it: no other valid stream stands for the
\* same tree.
C17_TreeRecoversBits ==
    (pc = "done" /\ entry = "from_bits")
    => \A c \in ValidCases : c.packet = packets => c.bits = bits

\* C17, amended: the tree decoded from a valid stream keeps every packet's
\* version, type_id, value and the order of the sub-packets and nothing of
\* the framing: written back with the fewest groups and count framing it
\* gives the original bits up to trailing pad bits, the leading groups of
\* zeros of the literals and the length type of the operators.
C17_TreeRecoversNormalForm ==
    (pc = "done" /\ entry = "from_bits")
    => \A c \in ValidCases :
          c.bits = bits => Pad(EncPacket(SpecOf(packets))) = c.kept

\* An operator framed by length over a literal with a leading group of zeros
\* was decoded: the tree written back is not the stream it came from.
C17_Witness ==
    /\ pc = "done"
    /\ entry = "from_bits"
    /\ \E c \in ValidCases :
          /\ c.bits = bits
          /\ c.spec.kind = "Operator"
          /\ c.spec.length_type_id = 0
          /\ \E i \in 1..Len(c.spec.subs) : c.spec.subs[i] = Spec010
          /\ c.kept # bits
          /\ Pad(EncPacket(SpecOf(packets))) = c.kept

----------------------------------------------------------------------------
----------------------------------------------------------------------------
(* MinPriorityQueue.                                                        *)

\* The (item, priority) pairs in the queue.
Contents(q) == {<<q[i].item, q[i].priority>> : i \in 1..Len(q)}

\* The call that was just made returned.
Ok(call) == call.op # "none" /\ call.raised = ""

\* C19: after any calls of insert, change and pop on distinct items, pop
\* removes and returns an (item, priority) pair of the queue whose priority
\* is the least of all entries, and the length goes down by one; of two pops
\* one right after the other the second returns a priority no lower than the
\* first.  The class's doctest gives what it expects.
C19_PopReturnsMinimum ==
    /\ [](DocTest)
    /\ [][(last'.op = "pop" /\ Ok(last'))
            => /\ last'.value \in Contents(queue)
               /\ \A i \in 1..Len(queue) : last'.value[2] <= queue[i].priority
               /\ Len(queue') = Len(queue) - 1
               /\ Contents(queue') = Contents(queue) \ {last'.value}
               /\ (last.op = "pop" /\ Ok(last))
                     => last'.value[2] >= last.value[2]]_vars

\* A pop from four entries returned priority 1 and left three entries, a 1 at
\* the root above two 2s: the entry moved to the root went down again.
C19_Witness ==
    /\ last.op = "pop"
    /\ Ok(last)
    /\ last.value[2] = 1
    /\ Len(queue) = 3
    /\ queue[1].priority = 1
    /\ queue[2].priority = 2
    /\ queue[3].priority = 2

----------------------------------------------------------------------------
\* C20: change(item, p) on an item in the queue sets its priority to p,
\* higher or lower, and leaves the length and every other item's priority as
\* they were; on an item not in the queue it does what insert(item, p) does.
\* Either way find(item) then returns p.
C20_Change ==
    /\ [][(last'.op = "change" /\ Ok(last'))
            => LET item == last'.args[1]
                   p == last'.args[2]
               IN  /\ IF item \in Queued
                      THEN /\ Len(queue') = Len(queue)
                           /\ Contents(queue') =
                                {c \in Contents(queue) : c[1] # item}
                                \cup {<<item, p>>}
                      ELSE /\ Len(queue') = Len(queue) + 1
                           /\ Contents(queue') = Contents(queue) \cup {<<item, p>>}
                           /\ Heap(queue', pos') = insert(Heap(queue, pos), item, p)
                   /\ item \in DOMAIN pos'
                   /\ find(Heap(queue', pos'), item) = p]_vars
    /\ [][(last.op = "change" /\ Ok(last) /\ last'.op = "find"
           /\ last'.args[1] = last.args[1])
            => Ok(last') /\ last'.value = last.args[2]]_vars

\* The priority of the item at the root of four entries was raised, and the
\* entry went down two levels.
C20_Witness ==
    /\ last.op = "change"
    /\ Ok(last)
    /\ last.args[2] = 2
    /\ Len(queue) = 4
    /\ last.args[1] \in DOMAIN pos
    /\ pos[last.args[1]] = 3
    /\ queue[1].priority = 1
    /\ queue[2].priority = 1

----------------------------------------------------------------------------
(* lowest_risk: what the claims expect, written without the queue.         *)

\* The positions of a grid.
Cells(g) == {Position(x, y) : x \in 0..maxx(g), y \in 0..maxy(g)}

\* Two positions one horizontal or vertical step apart.
Adjacent(p, q) ==
    \/ p.x = q.x /\ (p.y - q.y) \in {-1, 1}
    \/ p.y = q.y /\ (p.x - q.x) \in {-1, 1}

\* Paths one step longer than those of R, which holds the least risk found
\* for each position reached: the risk of the cell entered is added.
Extended(g, R) ==
    LET more == R \cup UNION {{[pos |-> q, risk |-> r.risk + GridAt(g, q)] :
                                 q \in {c \in Cells(g) : Adjacent(r.pos, c)}} :
                              r \in R}
    IN  {r \in more : \A o \in more : o.pos = r.pos => r.risk <= o.risk}

RECURSIVE PathRisks(_, _, _)
PathRisks(g, R, k) == IF k = 0 THEN R ELSE PathRisks(g, Extended(g, R), k - 1)

\* The least risk over the paths from s to each position of the grid: a path
\* that visits no cell twice has fewer steps than the grid has cells.
LeastRisks(g, s) ==
    PathRisks(g, {[pos |-> s, risk |-> 0]}, Cardinality(Cells(g)) - 1)

\* The risk of walking from the start straight along the top row to its end.
TopRowRisk(g) ==
    LET along[x \in 0..maxx(g)] ==
            IF x = 0 THEN 0 ELSE along[x - 1] + GridAt(g, Position(x, 0))
    IN  along[maxx(g)]

\* C21: lowest_risk returns the least total risk of the cells entered over
\* all paths of horizontal and vertical steps from start to end (0 when end
\* is start), and raises only when end is not a position of the grid.
C21_LowestRisk ==
    /\ rpc = "done" => [pos |-> end, risk |-> result] \in LeastRisks(grid, start)
    /\ rpc = "error" => end \notin Cells(grid)

\* A search that returned less than the top row costs for the end of the top
\* row: the best path left the row and came back up.
C21_Witness ==
    /\ rpc = "done"
    /\ end = Position(maxx(grid), 0)
    /\ result < TopRowRisk(grid)

----------------------------------------------------------------------------
(* check_line of day_10/main.py.  The specification SpecLine runs it on a  *)
(* line of bracket characters: one action for each turn of the for loop    *)
(* and one for the statements after it.                                    *)

\* The longest line checked, in characters.
MaxLineLen == 3

OPEN == {"(", "[", "{", "<"}

CLOSE == {")", "]", "}", ">"}

\* TO_CLOSE[c]
TO_CLOSE(c) ==
    CASE c = "(" -> ")"
      [] c = "[" -> "]"
      [] c = "{" -> "}"
      [] c = "<" -> ">"

\* How a call ends.
ReturnedNone == [kind |-> "returned"]

Incomplete(to_complete) == [kind |-> "Incomplete", to_complete |-> to_complete]

Corrupt(wrong_close) == [kind |-> "Corrupt", wrong_close |-> wrong_close]

\* stack[-1] of an empty list
IndexError == [kind |-> "IndexError"]

\* One turn of `for c in line`.
Char ==
    /\ outcome.kind = "running"
    /\ read < Len(line)
    /\ LET c == line[read + 1]
       IN  IF c \in OPEN
           THEN /\ closers' = Append(closers, TO_CLOSE(c))
                /\ UNCHANGED outcome
           ELSE IF c \in CLOSE
           THEN IF Len(closers) = 0
                THEN /\ outcome' = IndexError
                     /\ UNCHANGED closers
                ELSE IF c = closers[Len(closers)]
                THEN /\ closers' = SubSeq(closers, 1, Len(closers) - 1)
                     /\ UNCHANGED outcome
                ELSE /\ outcome' = Corrupt(c)
                     /\ UNCHANGED closers
           ELSE UNCHANGED <<closers, outcome>>
    /\ read' = read + 1
    /\ UNCHANGED line
    /\ UNCHANGED besidesLine

\* After the loop: raise Incomplete(stack[::-1]) or return None.
EndOfLine ==
    /\ outcome.kind = "running"
    /\ read = Len(line)
    /\ outcome' = IF Len(closers) > 0 THEN Incomplete(Reverse(closers))
                  ELSE ReturnedNone
    /\ UNCHANGED <<line, read, closers>>
    /\ UNCHANGED besidesLine

\* The lines of the function's doctest.
DocLines ==
    {<<"[", "<", ">", "(", "{", "}", ")", "{", "}", "[", "(", "[", "]", ")",
       "<", ">", "]", "]">>,
     <<"(", "[", "<", ">", "]">>,
     <<"{", "(", "[", "(", "<", "{", "}", "[", "<", ">", "[", "]", "}", ">",
       "{", "[", "]", "{", "[", "(", "<", "(", ")", ">">>}

\* The lines checked: every line of up to MaxLineLen bracket characters, and
\* the doctest's.
Lines ==
    UNION {[1..n -> OPEN \cup CLOSE] : n \in 0..MaxLineLen} \cup DocLines

\* check_line(line) is called: stack = [].
InitLine ==
    /\ line \in Lines
    /\ read = 0
    /\ closers = <<>>
    /\ outcome = [kind |-> "running"]
    /\ DecoderOff
    /\ QueueOff
    /\ RiskOff
    /\ BoardOff
    /\ StateOff

NextLine ==
    \/ Char
    \/ EndOfLine

SpecLine == InitLine /\ [][NextLine]_vars

\* A line with its leftmost adjacent pair of an opener and its own closer
\* taken out, again and again until there is none.
RECURSIVE Residue(_)
Residue(s) ==
    LET pairs == {i \in 1..(Len(s) - 1) : s[i] \in OPEN /\ s[i + 1] = TO_CLOSE(s[i])}
    IN  IF pairs = {} THEN s
        ELSE LET i == CHOOSE j \in pairs : \A k \in pairs : j <= k
             IN  Residue(SubSeq(s, 1, i - 1) \o SubSeq(s, i + 2, Len(s)))

Balanced(s) == Residue(s) = <<>>

\* A proper prefix of a balanced line: only openers are left over.
PrefixOfBalanced(s) ==
    /\ Residue(s) # <<>>
    /\ \A i \in 1..Len(Residue(s)) : Residue(s)[i] \in OPEN

\* The closers that complete such a prefix, in the order to append them.
MissingClosers(s) ==
    LET r == Residue(s)
    IN  [i \in 1..Len(r) |-> TO_CLOSE(r[Len(r) + 1 - i])]

\* The first closing character that closes nothing or the wrong bracket.
FirstWrongClose(s) ==
    LET r == Residue(s)
        i == CHOOSE j \in 1..Len(r) :
                 r[j] \in CLOSE /\ \A k \in 1..(j - 1) : r[k] \notin CLOSE
    IN  r[i]

\* C22: check_line returns on a balanced line, raises Incomplete with the
\* missing closers in appending order on a proper prefix of a balanced line,
\* and raises Corrupt with the first wrong closing character on every other
\* line, a closer met with no bracket open included; nothing else escapes.
C22_ThreeOutcomes ==
    outcome.kind \notin {"running", "off"} =>
        IF Balanced(line) THEN outcome = ReturnedNone
        ELSE IF PrefixOfBalanced(line) THEN outcome = Incomplete(MissingClosers(line))
        ELSE outcome = Corrupt(FirstWrongClose(line))

\* A closing character met with no bracket open: stack[-1] raised IndexError.
C22_Underflow ==
    /\ outcome = IndexError
    /\ closers = <<>>
    /\ line[read] \in CLOSE

----------------------------------------------------------------------------
(* Board of day_4/main.py: a 5x5 bingo board kept as a bit-board in an     *)
(* int32.  The specification SpecBoard calls mark any number of times and  *)
(* then win; is_marked reads one bit and is an operator.  The largest      *)
(* value the bit-board takes is 2^25 - 1, within an int32.                 *)

\* The most marked cells that lie off the row, column or diagonal that the
\* marks are filling.
MaxStray == 1

\* a & b of two non-negative integers
RECURSIVE BitAnd(_, _)
BitAnd(a, b) ==
    IF a = 0 \/ b = 0 THEN 0
    ELSE (a % 2) * (b % 2) + 2 * BitAnd(a \div 2, b \div 2)

\* a << n
ShiftLeft(a, n) == a * 2^n

\* Bit n of a is set: a & 2**n is not 0.
BitSet(a, n) == (a \div 2^n) % 2 = 1

\* mark(row, col): self._marked |= 2**(5*row + col).  Or with a single bit
\* sets that bit and leaves the others.
mark(m, row, col) ==
    IF BitSet(m, 5 * row + col) THEN m ELSE m + 2^(5 * row + col)

\* is_marked(row, col): bool(self._marked & 2**(5*row + col))
is_marked(m, row, col) == BitSet(m, 5 * row + col)

\* The masks of win(): 0b11111 and 0b00_00000_00001_00001_00001_00001_00001.
RowMask == 31

ColMask == 1082401

\* A variant of win: the test of the last column repeats the one before it.
win_last_column_missed(m) ==
    \E i \in 0..4 :
        \/ BitAnd(m, ShiftLeft(RowMask, 5 * i)) = ShiftLeft(RowMask, 5 * i)
        \/ BitAnd(m, ShiftLeft(ColMask, IF i = 4 THEN 3 ELSE i))
             = ShiftLeft(ColMask, IF i = 4 THEN 3 ELSE i)

\* The rows and columns of a board.
Indices == 0..4

\* win(): np.any of the five row tests and the five column tests.
win(m) ==
    \/ BitAnd(m, RowMask) = RowMask
    \/ BitAnd(m, ShiftLeft(RowMask, 5)) = ShiftLeft(RowMask, 5)
    \/ BitAnd(m, ShiftLeft(RowMask, 10)) = ShiftLeft(RowMask, 10)
    \/ BitAnd(m, ShiftLeft(RowMask, 15)) = ShiftLeft(RowMask, 15)
    \/ BitAnd(m, ShiftLeft(RowMask, 20)) = ShiftLeft(RowMask, 20)
    \/ BitAnd(m, ColMask) = ColMask
    \/ BitAnd(m, ShiftLeft(ColMask, 1)) = ShiftLeft(ColMask, 1)
    \/ BitAnd(m, ShiftLeft(ColMask, 2)) = ShiftLeft(ColMask, 2)
    \/ BitAnd(m, ShiftLeft(ColMask, 3)) = ShiftLeft(ColMask, 3)
    \/ BitAnd(m, ShiftLeft(ColMask, 4)) = ShiftLeft(ColMask, 4)

\* The rows, the columns and the two diagonals, as sets of cells.
Row(i) == {<<i, c>> : c \in Indices}

Column(j) == {<<r, j>> : r \in Indices}

Diagonals == {{<<i, i>> : i \in Indices}, {<<i, 4 - i>> : i \in Indices}}

Patterns == {Row(i) : i \in Indices} \cup {Column(j) : j \in Indices} \cup Diagonals

\* board.mark(row, col), on a marked cell or an unmarked one.
Mark(row, col) ==
    /\ marked' = mark(marked, row, col)
    /\ cells' = cells \cup {<<row, col>>}
    /\ won' = "unasked"
    /\ UNCHANGED besidesBoard

\* The marks made fill one row, column or diagonal, but for MaxStray cells;
\* they are made before win() is asked.
MarkAny ==
    LET full == {p \in Patterns : Cardinality(cells \ p) = MaxStray}
        open == {p \in Patterns : Cardinality(cells \ p) < MaxStray}
    IN  \E row \in Indices, col \in Indices :
            /\ won = "unasked"
            /\ IF open # {} THEN TRUE
               ELSE IF <<row, col>> \in cells THEN TRUE
               ELSE \E p \in full : <<row, col>> \in p
            /\ Mark(row, col)

\* board.win()
Win ==
    /\ won' = IF win(marked) THEN "True" ELSE "False"
    /\ UNCHANGED <<marked, cells>>
    /\ UNCHANGED besidesBoard

\* Board(board): nothing is marked.
InitBoard ==
    /\ marked = 0
    /\ won = "unasked"
    /\ cells = {}
    /\ DecoderOff
    /\ QueueOff
    /\ RiskOff
    /\ LineOff
    /\ StateOff

NextBoard ==
    \/ MarkAny
    \/ Win

SpecBoard == InitBoard /\ [][NextBoard]_vars

\* C23: win() is true exactly when one of the five rows or five columns has
\* all five cells marked, whatever mark calls were made; a cell is marked
\* exactly when mark was called with it (no call unmarks a cell), and marking
\* a marked cell again leaves the board as it is.
C23_WinIffLine ==
    /\ won \in {"True", "False"} =>
           (won = "True" <=> \E i \in Indices : Row(i) \subseteq cells \/ Column(i) \subseteq cells)
    /\ \A row \in Indices, col \in Indices :
           /\ is_marked(marked, row, col) <=> <<row, col>> \in cells
           /\ <<row, col>> \in cells => mark(marked, row, col) = marked

\* The last column is full, a cell beside it is marked too, and win() said so.
C23_Witness ==
    /\ won = "True"
    /\ Column(4) \subseteq cells
    /\ Cardinality(cells) = 6

----------------------------------------------------------------------------
(* C24: every packet that a call of Literal.from_bits or Operator.from_bits *)
(* returned took at least 11 bits of the stream (6 of header and 5 of a     *)
(* group, or 6 of header and 12 or 16 of framing), every call still open   *)
(* but the innermost has taken as many before calling down, and so a       *)
(* decoded tree is at most Len(bits) / 11 packets deep.                    *)
C24_DepthBoundedByBits ==
    /\ \A i \in 1..Len(returned) : returned[i].end - returned[i].begin >= 11
    /\ Len(stack) >= 1 => (Len(stack) - 1) * 11 <= bitpos
    /\ pc = "done" => Depth(packets) * 11 <= Len(bits)

\* A tree three packets deep came out, and one of its packets took exactly
\* 11 bits: a literal of one group.
C24_Witness ==
    /\ pc = "done"
    /\ Depth(packets) = 3
    /\ \E i \in 1..Len(returned) : returned[i].end - returned[i].begin = 11

----------------------------------------------------------------------------
\* C25: after any calls of insert (of items not in the queue), change and
\* pop, every entry's priority is at least that of its parent at index
\* (i - 1) // 2, and _pos is exact: its keys are the items queued, as many as
\* the list has entries, each mapped to the index where its entry is stored.
C25_HeapAndPositions ==
    /\ \A i \in 1..(Len(queue) - 1) :
           At(queue, (i - 1) \div 2).priority <= At(queue, i).priority
    /\ DOMAIN pos = Queued
    /\ Cardinality(DOMAIN pos) = Len(queue)
    /\ \A i \in 0..(Len(queue) - 1) : pos[At(queue, i).item] = i

\* Four entries after a pop and a change that both returned: a root of
\* priority 1 whose children are not in priority order among themselves.
C25_Witness ==
    /\ Len(queue) = MaxItems
    /\ last.op \in {"pop", "change"}
    /\ Ok(last)
    /\ queue[1].priority = 1
    /\ queue[2].priority > queue[3].priority

----------------------------------------------------------------------------
\* The indices of the pq.pop() calls in the trace.
PopsOf(tr) == {i \in 1..Len(tr) : tr[i].op = "pop"}

\* C26: in lowest_risk no position is popped twice, no pq.change call is made
\* for a position popped before it (a visited position is never inserted or
\* changed again), the visited set is the set of positions popped, and the
\* risks popped never go down.
C26_PoppedOnce ==
    /\ \A i, j \in PopsOf(trace) :
           /\ i # j => trace[i].pos # trace[j].pos
           /\ i < j => trace[i].risk <= trace[j].risk
    /\ \A i \in PopsOf(trace) : \A j \in (i + 1)..Len(trace) :
           trace[j].op = "change" => trace[j].pos # trace[i].pos
    /\ rpc \in {"loop", "done", "error"} =>
           visited = {trace[i].pos : i \in PopsOf(trace)}

\* A search that popped four positions or more, at rising risk, and went on
\* changing the queue after its first pops.
C26_Witness ==
    /\ rpc = "done"
    /\ Cardinality(PopsOf(trace)) >= 4
    /\ \E i, j \in PopsOf(trace) : i < j /\ trace[i].risk < trace[j].risk
    /\ \E i \in PopsOf(trace) : \E j \in (i + 1)..Len(trace) :
           /\ trace[j].op = "change"
           /\ \E k \in 1..(i - 1) : trace[k].op = "pop"

----------------------------------------------------------------------------
(* State.step of day_11/main.py: one step of the flashing grid.  The        *)
(* specification SpecStep builds a State as parse_input does and calls      *)
(* step once: one action for the loop that raises every energy, one for    *)
(* each turn of the while loop, one for the return.  set.pop() takes any   *)
(* member of the set.  The defaultdict energy_positions is a function on   *)
(* every level: a level that was never written reads as the empty set.     *)

\* The most lines of the input, and the most characters of a line.
MaxSide == 2

\* The digits written in the input.
Energies == {0, 8, 9}

\* The energy levels a position is kept at.
Levels == 0..10

\* d[k] = v and del d[k] of a dict
Assign(d, k, v) == [x \in DOMAIN d \cup {k} |-> IF x = k THEN v ELSE d[x]]

Delete(d, k) == [x \in DOMAIN d \ {k} |-> d[x]]

\* State(xmax, ymax)
State(xm, ym) ==
    [xmax |-> xm, ymax |-> ym,
     energy_positions |-> [e \in Levels |-> {}],
     positions_energy |-> <<>>]

\* set_energy(position, energy_level)
set_energy(st, position, energy_level) ==
    LET removed ==
            IF position \in DOMAIN st.positions_energy
            THEN [st.energy_positions
                    EXCEPT ![st.positions_energy[position]] = @ \ {position}]
            ELSE st.energy_positions
    IN  [st EXCEPT !.energy_positions =
                       [removed EXCEPT ![energy_level] = @ \cup {position}],
                   !.positions_energy = Assign(@, position, energy_level)]

\* get_energy(position), for a position that is a key
get_energy(st, position) == st.positions_energy[position]

\* get_positions(energy_level)
get_positions(st, energy_level) == st.energy_positions[energy_level]

\* pop_last(energy_level), when set.pop() takes position p
pop_last(st, energy_level, p) ==
    [st EXCEPT !.energy_positions = [@ EXCEPT ![energy_level] = @ \ {p}],
               !.positions_energy = Delete(@, p)]

\* neighbours(position, xmax, ymax) of day_11: all nine (dx, dy), the
\* position itself among them, in the order yielded.
Around(position, xm, ym) ==
    LET nx(d) == position.x + d[1]
        ny(d) == position.y + d[2]
        kept(d) == ~(nx(d) >= xm \/ nx(d) < 0 \/ ny(d) >= ym \/ ny(d) < 0)
        ds == SelectSeq(Deltas, kept)
    IN  [i \in 1..Len(ds) |-> Position(nx(ds[i]), ny(ds[i]))]

\* parse_input(data), data a list of lines of digits: the positions in the
\* order they are set.
Parsed(data) ==
    [k \in 1..(Len(data) * Len(data[1])) |->
        Position((k - 1) % Len(data[1]), (k - 1) \div Len(data[1]))]

RECURSIVE SetAll(_, _, _)
SetAll(st, data, ps) ==
    IF ps = <<>> THEN st
    ELSE SetAll(set_energy(st, Head(ps), data[Head(ps).y + 1][Head(ps).x + 1]),
                data, Tail(ps))

parse_input(data) ==
    SetAll(State(Len(data), Len(data[1])), data, Parsed(data))

\* The State the variables hold.
Self ==
    [xmax |-> xmax, ymax |-> ymax, energy_positions |-> energy_positions,
     positions_energy |-> positions_energy]

\* self.<field> = st.<field>, for the two dicts
Becomes(st) ==
    /\ energy_positions' = st.energy_positions
    /\ positions_energy' = st.positions_energy

\* for position, energy_level in self: self.set_energy(position,
\* energy_level + 1), over a copy of positions_energy made before the loop.
RECURSIVE RaiseAll(_, _, _)
RaiseAll(st, p_e, ps) ==
    IF ps = {} THEN st
    ELSE LET position == CHOOSE p \in ps : TRUE
         IN  RaiseAll(set_energy(st, position, p_e[position] + 1), p_e,
                      ps \ {position})

Increase ==
    /\ spc = "call"
    /\ Becomes(RaiseAll(Self, positions_energy, DOMAIN positions_energy))
    /\ flashed' = {}
    /\ spc' = "flashing"
    /\ UNCHANGED <<xmax, ymax, stepped, requeued>>
    /\ UNCHANGED besidesState

\* The for loop over the neighbours of a position that flashed; get_energy
\* raises KeyError for a neighbour that is no key of positions_energy, and
\* the loop stops there.
RECURSIVE Spread(_, _, _)
Spread(st, ns, seen) ==
    IF ns = <<>> THEN [state |-> st, raised |-> ""]
    ELSE LET neighbour == Head(ns)
         IN  IF neighbour \in seen THEN Spread(st, Tail(ns), seen)
             ELSE IF neighbour \notin DOMAIN st.positions_energy
             THEN [state |-> st, raised |-> "KeyError"]
             ELSE LET e == get_energy(st, neighbour) + 1
                  IN  Spread(set_energy(st, neighbour, IF e < 10 THEN e ELSE 10),
                             Tail(ns), seen)

\* One turn of the while loop, set.pop() taking `flash`.
Flash(flash) ==
    /\ spc = "flashing"
    /\ flash \in get_positions(Self, 10)
    /\ LET popped == pop_last(Self, 10, flash)
       IN  IF flash \in flashed
           THEN /\ Becomes(set_energy(popped, flash, 10))
                /\ requeued' = TRUE
                /\ UNCHANGED <<flashed, spc, stepped>>
           ELSE LET seen == flashed \cup {flash}
                    spread == Spread(set_energy(popped, flash, 0),
                                     Around(flash, xmax, ymax), seen)
                IN  /\ Becomes(spread.state)
                    /\ flashed' = seen
                    /\ IF spread.raised = ""
                       THEN UNCHANGED <<spc, stepped>>
                       ELSE /\ spc' = "raised"
                            /\ stepped' = [kind |-> spread.raised]
                    /\ UNCHANGED requeued
    /\ UNCHANGED <<xmax, ymax>>
    /\ UNCHANGED besidesState

\* self.pop_last(energy_level=10) takes any position of level 10.
FlashAny == \E flash \in get_positions(Self, 10) : Flash(flash)

\* return len(flashed), when no position is at level 10.
ReturnFlashes ==
    /\ spc = "flashing"
    /\ Cardinality(get_positions(Self, 10)) = 0
    /\ spc' = "returned"
    /\ stepped' = [kind |-> "returned", value |-> Cardinality(flashed)]
    /\ UNCHANGED <<xmax, ymax, energy_positions, positions_energy, flashed, requeued>>
    /\ UNCHANGED besidesState

\* The inputs parsed: every grid of 1..MaxSide lines of 1..MaxSide digits.
Inputs ==
    UNION {[1..r -> [1..c -> Energies]] : r \in 1..MaxSide, c \in 1..MaxSide}

\* state = parse_input(lines); state.step() is called.
InitStep ==
    /\ \E data \in Inputs :
           LET st == parse_input(data)
           IN  /\ xmax = st.xmax
               /\ ymax = st.ymax
               /\ energy_positions = st.energy_positions
               /\ positions_energy = st.positions_energy
    /\ flashed = {}
    /\ spc = "call"
    /\ stepped = [kind |-> "none"]
    /\ requeued = FALSE
    /\ DecoderOff
    /\ QueueOff
    /\ RiskOff
    /\ LineOff
    /\ BoardOff

NextStep ==
    \/ Increase
    \/ FlashAny
    \/ ReturnFlashes

SpecStep == InitStep /\ [][NextStep]_vars

\* The two dicts describe one assignment of levels to positions.
SameAssignment ==
    /\ \A p \in DOMAIN positions_energy : p \in energy_positions[positions_energy[p]]
    /\ \A e \in Levels : \A p \in energy_positions[e] :
           p \in DOMAIN positions_energy /\ positions_energy[p] = e

\* step is over: it returned or raised.
Stepped == spc \in {"returned", "raised"}

\* The input had as many lines as a line has digits.
Square == xmax = ymax

\* C27: step() on a grid of energies 0..9 ends by returning, never takes its
\* `flash in flashed` branch, and leaves every energy in 0..9, the positions
\* at 0 being the flashed ones and their number the value returned, with
\* energy_positions and positions_energy describing the same assignment.
C27_StepEnds ==
    /\ ~requeued
    /\ Stepped =>
           /\ stepped = [kind |-> "returned", value |-> Cardinality(flashed)]
           /\ \A p \in DOMAIN positions_energy : positions_energy[p] \in 0..9
           /\ {p \in DOMAIN positions_energy : positions_energy[p] = 0} = flashed
           /\ SameAssignment

\* step raised KeyError: a neighbour of a flashed position is no position of
\* the grid, whose lines are not as many as the digits of a line.
C27_KeyError ==
    /\ spc = "raised"
    /\ stepped = [kind |-> "KeyError"]
    /\ ~Square
    /\ flashed # {}

====
